---- MODULE Spec2Model ----
(***************************************************************************)
(* Model of the prompt-wait detector of claude-terminal-panel              *)
(* (src/src/promptDetector.ts): the sliding PromptBuffer, stripAnsi, the   *)
(* pattern set, and the PromptDetector's per-terminal buffers, timers and  *)
(* waiting states, driven by onData, onUserInput, the firing of the        *)
(* setTimeout callbacks, updateConfig, removeTerminal and dispose.         *)
(*                                                                         *)
(* A string is a sequence of characters; a character is a one-letter       *)
(* string, except the few written by name: "ESC" (0x1B), "DQUOTE" (0x22),  *)
(* "BACKSLASH" (0x5C), "BACKTICK" (0x60), and the two non-ASCII selector   *)
(* arrows "U276F" and "U203A".                                             *)
(***************************************************************************)
EXTENDS Integers, Sequences, FiniteSets, TLC

(***************************************************************************)
(* Characters and character classes of the regular expressions.            *)
(***************************************************************************)
ESC == "ESC"

Upper ==
  {"A","B","C","D","E","F","G","H","I","J","K","L","M",
   "N","O","P","Q","R","S","T","U","V","W","X","Y","Z"}

Lower ==
  {"a","b","c","d","e","f","g","h","i","j","k","l","m",
   "n","o","p","q","r","s","t","u","v","w","x","y","z"}

Digit == {"0","1","2","3","4","5","6","7","8","9"}

\* \s of a JavaScript regular expression (the ASCII part of it)
WhiteSpace == {" ", "\t", "\n", "\r", "\f"}

\* \w
WordChar == Upper \cup Lower \cup Digit \cup {"_"}

\* the characters "." does not match
LineTerminator == {"\n", "\r"}

\* [@-Z\\-_] : 0x40-0x5A and 0x5C-0x5F
AnsiFe == {"@"} \cup Upper \cup {"BACKSLASH", "]", "^", "_"}

\* [0-?] : 0x30-0x3F
AnsiParam == Digit \cup {":", ";", "<", "=", ">", "?"}

\* [ -/] : 0x20-0x2F
AnsiIntermediate ==
  {" ", "!", "DQUOTE", "#", "$", "%", "&", "'", "(", ")", "*", "+", ",", "-", ".", "/"}

\* [@-~] : 0x40-0x7E
AnsiFinal ==
  {"@"} \cup Upper \cup {"[", "BACKSLASH", "]", "^", "_", "BACKTICK"} \cup Lower \cup {"{", "|", "}", "~"}

\* the lower-case form of a character (the i flag)
ToLower(c) ==
  CASE c = "A" -> "a" [] c = "B" -> "b" [] c = "C" -> "c" [] c = "D" -> "d"
    [] c = "E" -> "e" [] c = "F" -> "f" [] c = "G" -> "g" [] c = "H" -> "h"
    [] c = "I" -> "i" [] c = "J" -> "j" [] c = "K" -> "k" [] c = "L" -> "l"
    [] c = "M" -> "m" [] c = "N" -> "n" [] c = "O" -> "o" [] c = "P" -> "p"
    [] c = "Q" -> "q" [] c = "R" -> "r" [] c = "S" -> "s" [] c = "T" -> "t"
    [] c = "U" -> "u" [] c = "V" -> "v" [] c = "W" -> "w" [] c = "X" -> "x"
    [] c = "Y" -> "y" [] c = "Z" -> "z" [] OTHER -> c

LowerCase(s) == [i \in 1..Len(s) |-> ToLower(s[i])]

(***************************************************************************)
(* String helpers: String.prototype.slice(-n), and the pieces the regular  *)
(* expressions are made of.                                                *)
(***************************************************************************)
\* s.slice(-n), n >= 0: the last n characters of s, all of s when it is shorter;
\* slice(-0) is slice(0), all of s
SliceLast(s, n) ==
  IF n > 0 /\ Len(s) > n THEN SubSeq(s, Len(s) - n + 1, Len(s)) ELSE s

\* lit occurs in s and its last character is s[k]
EndsAt(s, k, lit) ==
  /\ k <= Len(s)
  /\ k >= Len(lit)
  /\ SubSeq(s, k - Len(lit) + 1, k) = lit

\* lit occurs in s and its first character is s[i]
StartsAt(s, i, lit) ==
  /\ i >= 1
  /\ i + Len(lit) - 1 <= Len(s)
  /\ SubSeq(s, i, i + Len(lit) - 1) = lit

Contains(s, lit) == \E i \in 1..Len(s) : StartsAt(s, i, lit)

\* the index of the last character of s[1..k] that is not white space, 0 if none:
\* where a trailing \s*$ starts
SkipSpaceBack(s, k) ==
  CHOOSE i \in 0..k :
    /\ i > 0 => s[i] \notin WhiteSpace
    /\ \A j \in (i + 1)..k : s[j] \in WhiteSpace

\* the ends k of a match of  X\s*:?\s*$  given the ends of X: X ends at k, then
\* white space, an optional colon, white space, the end of the input
BeforeSpaceColonSpaceEnd(s) ==
  LET k1 == SkipSpaceBack(s, Len(s))
      \* without a colon: X ends anywhere from k1 on (all that follows is \s)
      plain == k1..Len(s)
      \* with a colon at k1: X ends anywhere from the last non-space before it on
      colon == IF k1 >= 1 /\ s[k1] = ":"
               THEN SkipSpaceBack(s, k1 - 1)..(k1 - 1)
               ELSE {}
  IN  plain \cup colon

\* the ends k of a match of  X\??\s*$
BeforeQuestionSpaceEnd(s) ==
  LET k1 == SkipSpaceBack(s, Len(s))
      plain == k1..Len(s)
      quest == IF k1 >= 1 /\ s[k1] = "?" THEN {k1 - 1} ELSE {}
  IN  plain \cup quest

\* the position before i is the start of the input, a \n or a \r: (?:^|\n|\r)
AtLineStart(s, i) == i = 1 \/ (i > 1 /\ s[i - 1] \in LineTerminator)

(***************************************************************************)
(* stripAnsi: every ESC followed by one of @-Z, BACKSLASH-_ , or by "[",   *)
(* parameter bytes 0-?, intermediate bytes SPACE-/ and a final byte @-~,   *)
(* is replaced by the empty string (a global replace, left to right).      *)
(***************************************************************************)
\* the first index from i on whose character is not in class
SkipClass(s, i, class) ==
  LET stop == {j \in i..Len(s) : s[j] \notin class}
  IN  IF stop = {} THEN Len(s) + 1 ELSE CHOOSE j \in stop : \A k \in stop : j <= k

\* the length of the escape sequence that starts at s[i], 0 when none does. The
\* three classes of a CSI sequence are disjoint, so the greedy match is the only one.
AnsiMatchLen(s, i) ==
  IF s[i] # ESC \/ i = Len(s) THEN 0
  ELSE IF s[i + 1] \in AnsiFe THEN 2
  ELSE IF s[i + 1] = "["
       THEN LET p == SkipClass(s, i + 2, AnsiParam)
                q == SkipClass(s, p, AnsiIntermediate)
            IN  IF q <= Len(s) /\ s[q] \in AnsiFinal THEN q - i + 1 ELSE 0
       ELSE 0

\* s from s[i] on with its escape sequences removed: the text up to the next
\* sequence, then the rest after that sequence
RECURSIVE StripFrom(_, _)
StripFrom(s, i) ==
  LET starts == {j \in i..Len(s) : AnsiMatchLen(s, j) > 0}
  IN  IF starts = {} THEN SubSeq(s, i, Len(s))
      ELSE LET j == CHOOSE x \in starts : \A y \in starts : x <= y
           IN  SubSeq(s, i, j - 1) \o StripFrom(s, j + AnsiMatchLen(s, j))

stripAnsi(text) == StripFrom(text, 1)

(***************************************************************************)
(* DEFAULT_PROMPT_PATTERNS: the sixteen built-in regular expressions, each *)
(* named by its place in the list, and what RegExp.prototype.test answers  *)
(* for it (none has the g or y flag, so test keeps no state).              *)
(***************************************************************************)
DEFAULT_PROMPT_PATTERNS ==
  << "re01", "re02", "re03", "re04", "re05", "re06", "re07", "re08",
     "re09", "re10", "re11", "re12", "re13", "re14", "re15", "re16" >>

\* X\??\s*$ where X is word with its first letter in either case
WordAtEnd(s, upperFirst, lowerFirst, rest) ==
  \E k \in BeforeQuestionSpaceEnd(s) :
    \/ EndsAt(s, k, <<upperFirst>> \o rest)
    \/ EndsAt(s, k, <<lowerFirst>> \o rest)

\* open [Yy] / [Nn] close \s*:?\s*$
YesNoAtEnd(s, open, close) ==
  \E k \in BeforeSpaceColonSpaceEnd(s) :
    \E y \in {"Y", "y"}, n \in {"N", "n"} : EndsAt(s, k, <<open, y, "/", n, close>>)

\* /(?:^|\n|\r)>\s*$/
Test_re01(s) ==
  LET k == SkipSpaceBack(s, Len(s))
  IN  k >= 1 /\ s[k] = ">" /\ AtLineStart(s, k)

\* /(?:^|\n|\r)>>>\s*$/
Test_re02(s) ==
  LET k == SkipSpaceBack(s, Len(s))
  IN  EndsAt(s, k, <<">", ">", ">">>) /\ AtLineStart(s, k - 2)

\* /(?:^|\n|\r)\w+>\s*$/i
Test_re03(s) ==
  LET k == SkipSpaceBack(s, Len(s))
  IN  /\ k >= 2
      /\ s[k] = ">"
      /\ \E j \in 1..(k - 1) :
           /\ \A i \in j..(k - 1) : s[i] \in WordChar
           /\ AtLineStart(s, j)

\* /\([Yy]\/[Nn]\)\s*:?\s*$/
Test_re04(s) == YesNoAtEnd(s, "(", ")")

\* /\[[Yy]\/[Nn]\]\s*:?\s*$/
Test_re05(s) == YesNoAtEnd(s, "[", "]")

\* /\(yes\/no\)\s*:?\s*$/i
Test_re06(s) ==
  \E k \in BeforeSpaceColonSpaceEnd(s) : EndsAt(LowerCase(s), k, <<"(","y","e","s","/","n","o",")">>)

\* /[Cc]onfirm\??\s*$/
Test_re07(s) == WordAtEnd(s, "C", "c", <<"o","n","f","i","r","m">>)

\* /[Aa]pply\??\s*$/
Test_re08(s) == WordAtEnd(s, "A", "a", <<"p","p","l","y">>)

\* /[Cc]ontinue\??\s*$/
Test_re09(s) == WordAtEnd(s, "C", "c", <<"o","n","t","i","n","u","e">>)

\* /[Pp]roceed\??\s*$/
Test_re10(s) == WordAtEnd(s, "P", "p", <<"r","o","c","e","e","d">>)

\* /[Aa]ccept\??\s*$/
Test_re11(s) == WordAtEnd(s, "A", "a", <<"c","c","e","p","t">>)

\* /[U276F U203A >]\s*\d+\./ : a selector arrow, white space, digits, a dot
Test_re12(s) ==
  \E i \in 1..Len(s) :
    /\ s[i] \in {"U276F", "U203A", ">"}
    /\ LET d == SkipClass(s, i + 1, WhiteSpace)
           e == SkipClass(s, d, Digit)
       IN  e > d /\ e <= Len(s) /\ s[e] = "."

\* /~\/\.claude\/plans\/.*\.md/ : "." matches no line terminator
Test_re13(s) ==
  LET prefix == <<"~","/",".","c","l","a","u","d","e","/","p","l","a","n","s","/">>
  IN  \E i \in 1..Len(s) :
        /\ StartsAt(s, i, prefix)
        /\ \E j \in (i + Len(prefix))..Len(s) :
             /\ StartsAt(s, j, <<".", "m", "d">>)
             /\ \A m \in (i + Len(prefix))..(j - 1) : s[m] \notin LineTerminator

\* /[Ww]ould you like to [^?]*\?/
Test_re14(s) ==
  LET rest == <<"o","u","l","d"," ","y","o","u"," ","l","i","k","e"," ","t","o"," ">>
  IN  \E i \in 1..Len(s) :
        /\ s[i] \in {"W", "w"}
        /\ StartsAt(s, i + 1, rest)
        /\ \E j \in (i + 1 + Len(rest))..Len(s) : s[j] = "?"

\* /[Pp]ress enter to confirm/i
Test_re15(s) == Contains(LowerCase(s), <<"p","r","e","s","s"," ","e","n","t","e","r"," ","t","o"," ","c","o","n","f","i","r","m">>)

\* /esc to cancel/i
Test_re16(s) == Contains(LowerCase(s), <<"e","s","c"," ","t","o"," ","c","a","n","c","e","l">>)

(***************************************************************************)
(* Custom patterns are strings handed to new RegExp. The sources the model *)
(* draws them from: two that compile and two that throw a SyntaxError.     *)
(***************************************************************************)
\* /\$ $/ : a dollar and a space at the end of the input
SrcDollar == "\\$ $"

\* /ok/ : the letters ok anywhere
SrcOk == "ok"

\* an unterminated group, and an unterminated character class
SrcBadGroup == "("

SrcBadClass == "[a"

CustomSources == {SrcDollar, SrcOk, SrcBadGroup, SrcBadClass}

\* new RegExp(source) returns (TRUE) or throws a SyntaxError (FALSE)
RegExpCompiles(source) == source \notin {SrcBadGroup, SrcBadClass}

\* pattern.test(s)
RegExpTest(pattern, s) ==
  CASE pattern = "re01" -> Test_re01(s)
    [] pattern = "re02" -> Test_re02(s)
    [] pattern = "re03" -> Test_re03(s)
    [] pattern = "re04" -> Test_re04(s)
    [] pattern = "re05" -> Test_re05(s)
    [] pattern = "re06" -> Test_re06(s)
    [] pattern = "re07" -> Test_re07(s)
    [] pattern = "re08" -> Test_re08(s)
    [] pattern = "re09" -> Test_re09(s)
    [] pattern = "re10" -> Test_re10(s)
    [] pattern = "re11" -> Test_re11(s)
    [] pattern = "re12" -> Test_re12(s)
    [] pattern = "re13" -> Test_re13(s)
    [] pattern = "re14" -> Test_re14(s)
    [] pattern = "re15" -> Test_re15(s)
    [] pattern = "re16" -> Test_re16(s)
    [] pattern = SrcDollar -> EndsAt(s, Len(s), <<"$", " ">>)
    [] pattern = SrcOk -> Contains(s, <<"o", "k">>)

\* the flags as they would be if every pattern were global
Flags_Global(pattern) == {"g"}

\* the flags of a pattern: four of the built-in ones have i and none has another;
\* new RegExp(source) gives none
Flags(pattern) ==
  IF pattern \in {"re03", "re06", "re15", "re16"} THEN {"i"} ELSE {}

\* pattern.test(s) for a RegExp object whose lastIndex is li: what it answers and
\* the lastIndex it leaves. Without g and y the search starts at 0 and lastIndex
\* is left alone. With g or y it starts at lastIndex and leaves lastIndex at the
\* end of the match, 0 when there is none; the end of the match is taken to be
\* the end of the input, as it is for the patterns anchored there
TestAt(pattern, s, li) ==
  IF Flags(pattern) \cap {"g", "y"} = {}
  THEN [found |-> RegExpTest(pattern, s), lastIndex |-> li]
  ELSE LET found == li <= Len(s) /\ RegExpTest(pattern, SubSeq(s, li + 1, Len(s)))
       IN  [found |-> found, lastIndex |-> IF found THEN Len(s) ELSE 0]

(***************************************************************************)
(* PromptBuffer                                                            *)
(***************************************************************************)
\* constructor(maxSize = 500)
DefaultMaxSize == 500

\* append as it would be with slice(0, maxSize): the oldest characters kept
PromptBuffer_append_KeepsOldest(buffer, maxSize, data) ==
  LET appended == buffer \o data
  IN  IF Len(appended) > maxSize THEN SubSeq(appended, 1, maxSize) ELSE appended

\* append(data): the contents after the call
PromptBuffer_append(buffer, maxSize, data) ==
  LET appended == buffer \o data
  IN  IF Len(appended) > maxSize THEN SliceLast(appended, maxSize) ELSE appended

\* clear(): the contents after the call
PromptBuffer_clear(buffer) == <<>>

(***************************************************************************)
(* The inputs of the model.                                                *)
(***************************************************************************)
\* terminal ids
Ids == {"t1", "t2"}

\* the chunks the buffers of all terminals hold together: no onData appends
\* once these many were appended and not yet cleared or deleted
MaxAppends == 2

\* the chunks of output a pty delivers, by name: a prompt at the start of a line
\* followed by a colour reset, and a line of text
ChunkNames == {"prompt", "text"}

Chunk(name) ==
  CASE name = "prompt" -> <<"\n", ">", " ", ESC, "[", "0", "m">>
    [] name = "text" -> <<"o", "k", "\n">>

\* the configurations handed to the constructor and to updateConfig
ShowDelays == {500}

CustomPatternLists == { <<>>, <<SrcBadGroup, SrcOk>> }

Configs ==
  [enabled : BOOLEAN, showDelay : ShowDelays, customPatterns : CustomPatternLists]

(***************************************************************************)
(* JavaScript Map: a function whose domain is the set of keys.             *)
(***************************************************************************)
EmptyMap == [k \in {} |-> FALSE]

MapHas(m, k) == k \in DOMAIN m

MapSet(m, k, v) == [x \in DOMAIN m \cup {k} |-> IF x = k THEN v ELSE m[x]]

MapDelete(m, k) == [x \in DOMAIN m \ {k} |-> m[x]]

\* the elements of an array
Range(seq) == {seq[i] : i \in 1..Len(seq)}

(***************************************************************************)
(* The state of a PromptDetector and of the timers of the event loop.      *)
(*   buffers, timers, waitingState, patterns, config: the fields;          *)
(*   pending: the timeouts set and neither fired nor cleared, each with    *)
(*            its handle, the terminal id its callback closes over and     *)
(*            its delay.                                                   *)
(* What the model records of the run:                                      *)
(*   call:      the last call handled: its name and terminal id, whether   *)
(*              the terminal was waiting when it began, the value          *)
(*              it handed to setWaitingState, the notifications it sent,   *)
(*              the timeouts it cleared, and for a timeout that fired      *)
(*              whether it had been passed or ignored (below);             *)
(*   notified:  per id, the value of the last notification sent, FALSE     *)
(*              while none was;                                            *)
(*   forced:    per id, the value last handed to setWaitingState since the *)
(*              id's waiting state was last deleted, FALSE while none was; *)
(*   fed:       per id, the chunks appended since the buffer was last      *)
(*              cleared or deleted;                                        *)
(*   typed:     the ids whose buffer user input has cleared since it was   *)
(*              created;                                                   *)
(*   passed:    the pending timeouts set before the last user input or     *)
(*              the last appending onData of their terminal;               *)
(*   ignored:   the pending timeouts during whose wait an onData of their  *)
(*              terminal returned early;                                   *)
(*   removed:   the ids removeTerminal was called for, with no appending   *)
(*              onData since.                                              *)
(* The stand-alone PromptBuffer: pbBuffer, pbMaxSize, and pbAll, all that  *)
(* was appended since the last clear.                                      *)
(* The stand-alone evaluation: evPatterns, the RegExp objects; evIndex,    *)
(* the lastIndex of each; evRuns, the evaluations made.                    *)
(* The presentation side: wvTerminals, the map of TerminalState, each      *)
(* entry with the number of its Terminal object among those created for    *)
(* the id and the calls that object received; wvCreated, per id the        *)
(* Terminal objects created so far;                                        *)
(* arrived, per id the chunks of output that arrived, each with whether    *)
(* detection was enabled and which Terminal object the id had then (0 for  *)
(* none); wvElements, the terminal containers in the document, each named  *)
(* by its id and the number of its Terminal and with its display;          *)
(* wvActive, activeTerminalId; wvDisposed, the Terminals disposed;         *)
(* wvDeferred, the callbacks of switchToTerminal set and not yet run, each *)
(* named by the entry it closes over; wvPosted, the messages posted to the *)
(* extension and not yet delivered; wvMisused, the disposed Terminals a    *)
(* callback worked on; wvTabBar, the tabs of the tab bar; wvGrid, the      *)
(* columns and rows that fit the container; wvReceived, the messages the   *)
(* window received, each with the handler that ran for it.                 *)
(* The dispatch of the messages of the webview: delivered, the messages    *)
(* handed to dispatchMessage; ctxCalls, for each the calls it made on the  *)
(* context; lastResize, per session the dimensions its process was last    *)
(* resized to; procLog, for each message the resizes of a process made.    *)
(* The PathAutocompleteProvider: debounceTimer, the handle of the timeout   *)
(* getDebouncedSuggestions set last, a request's number, 0 for undefined;  *)
(* acTimeouts, the timeouts pending; acListing, the requests whose         *)
(* directory listing is awaited; cache, the keys cached; acRequests, the   *)
(* path of each request made; acCallbacks, the callbacks invoked, each     *)
(* with the number of requests made by then.                               *)
(* The ConfigManager: cachedConfig, <<>> for undefined; disposables, the   *)
(* subscriptions it holds, its listener being called while its             *)
(* subscription is not disposed; settings, the 'claudeTerminal' section of *)
(* the settings of VS Code. Of the run: cmReads, the reads of the settings *)
(* since the cache was last invalidated; cmReturned, what getConfig        *)
(* returned since then; cmLast, the last operation, the cache before it    *)
(* and whether the listener was called.                                    *)
(***************************************************************************)
VARIABLES buffers, timers, waitingState, patterns, config, pending,
          call, notified, forced, fed, typed, passed, ignored, removed,
          pbBuffer, pbMaxSize, pbAll,
          evPatterns, evIndex, evRuns,
          wvTerminals, wvCreated, arrived,
          wvElements, wvActive, wvDisposed, wvDeferred, wvPosted, wvMisused, wvTabBar,
          wvGrid, wvReceived,
          delivered, ctxCalls, lastResize, procLog,
          debounceTimer, acTimeouts, acListing, cache, acRequests, acCallbacks,
          cachedConfig, disposables, settings, cmReads, cmReturned, cmLast

detectorVars == <<buffers, timers, waitingState, patterns, config, pending>>

recordVars == <<call, notified, forced, fed, typed, passed, ignored, removed>>

bufferVars == <<pbBuffer, pbMaxSize, pbAll>>

evalVars == <<evPatterns, evIndex, evRuns>>

\* what is used apart from the detector
\* the webview apart from the map of its terminals
restVars == <<wvCreated, wvElements, wvActive, wvDisposed, wvDeferred, wvPosted, wvMisused,
              wvTabBar>>

surfaceVars == <<wvTerminals, restVars, arrived, wvGrid, wvReceived>>

dispatchVars == <<delivered, ctxCalls, lastResize, procLog>>

managerVars == <<cachedConfig, disposables, settings, cmReads, cmReturned, cmLast>>

completeVars == <<debounceTimer, acTimeouts, acListing, cache, acRequests, acCallbacks>>

aloneVars == <<bufferVars, evalVars, surfaceVars, dispatchVars, managerVars, completeVars>>

vars == <<detectorVars, recordVars, aloneVars>>

\* the part of the state a method of the detector works on, and what it sent
Detector ==
  [buffers |-> buffers, timers |-> timers, waitingState |-> waitingState,
   pending |-> pending, emitted |-> <<>>, retired |-> {}]

\* this.waitingState.get(terminalId) ?? false
IsWaiting(ws, id) == IF MapHas(ws, id) THEN ws[id] ELSE FALSE

\* the timeouts pending for a terminal
PendingFor(pd, id) == {t \in pd : t.id = id}

\* the handle setTimeout returns, a new object: named by the terminal it is for
\* and the least number that names no pending timeout, no map entry and no
\* handle the same call has cleared
NewHandle(d, id) ==
  LET used == {t.h : t \in d.pending} \cup {d.timers[k] : k \in DOMAIN d.timers}
                \cup d.retired
  IN  <<id, CHOOSE n \in 1..(Cardinality(used) + 1) :
              <<id, n>> \notin used /\ \A m \in 1..(n - 1) : <<id, m>> \in used>>

\* buildPatterns as it would be if it pushed every source, compiled or not
buildPatterns_KeepsInvalid(customPatterns) == DEFAULT_PROMPT_PATTERNS \o customPatterns

\* buildPatterns(customPatterns)
RECURSIVE buildPatterns(_)
buildPatterns(customPatterns) ==
  IF customPatterns = <<>> THEN DEFAULT_PROMPT_PATTERNS
  ELSE LET n == Len(customPatterns)
           before == buildPatterns(SubSeq(customPatterns, 1, n - 1))
       IN  IF RegExpCompiles(customPatterns[n])
           THEN Append(before, customPatterns[n])
           ELSE before

\* updateConfig as it would be without patterns.length = 0
updateConfig_Appends(pats, c) == pats \o buildPatterns(c.customPatterns)

\* updateConfig(config): the patterns array after the call. The new list is built
\* first; the array is then emptied and filled with it, in the same call
updateConfig(pats, c) ==
  LET newPatterns == buildPatterns(c.customPatterns)
      emptied == SubSeq(pats, 1, 0)
  IN  emptied \o newPatterns

\* clearTimeout as it would be if the handle were dropped without being cleared
clearTimeout_Forgets(pd, h) == pd

\* clearTimeout(timer)
clearTimeout(pd, h) == {t \in pd : t.h # h}

\* clearTimer as it would be if it cleared the timers of every terminal
clearTimer_All(d, id) ==
  [d EXCEPT !.pending = {},
            !.timers = EmptyMap,
            !.retired = @ \cup {d.timers[k] : k \in DOMAIN d.timers}]

\* clearTimer(terminalId)
clearTimer(d, id) ==
  IF MapHas(d.timers, id)
  THEN [d EXCEPT !.pending = clearTimeout(@, d.timers[id]),
                 !.timers = MapDelete(@, id),
                 !.retired = @ \cup {d.timers[id]}]
  ELSE d

\* setWaitingState as it would be without the comparison with the current state
setWaitingState_Always(d, id, isWaiting) ==
  [d EXCEPT !.waitingState = MapSet(@, id, isWaiting),
            !.emitted = Append(@, <<id, isWaiting>>)]

\* setWaitingState(terminalId, isWaiting)
setWaitingState(d, id, isWaiting) ==
  IF IsWaiting(d.waitingState, id) # isWaiting
  THEN [d EXCEPT !.waitingState = MapSet(@, id, isWaiting),
                 !.emitted = Append(@, <<id, isWaiting>>)]
  ELSE d

\* the tail checkForPrompt tests: stripAnsi(content).slice(-200)
TailLen == 200

\* the tail as it would be if the slice were taken before the stripping
PromptTail_RawTail(content) == stripAnsi(SliceLast(content, TailLen))

PromptTail(content) == SliceLast(stripAnsi(content), TailLen)

\* this.patterns.some((pattern) => pattern.test(tail))
SomePatternMatches(pats, tail) == \E i \in 1..Len(pats) : RegExpTest(pats[i], tail)

\* checkForPrompt as it would be if the callback never set the state
checkForPrompt_Never(d, id, pats) == d

\* checkForPrompt(terminalId)
checkForPrompt(d, id, pats) ==
  IF ~MapHas(d.buffers, id) THEN d
  ELSE setWaitingState(d, id, SomePatternMatches(pats, PromptTail(d.buffers[id])))

\* setTimeout(() => this.checkForPrompt(terminalId), showDelay); timers.set(...)
scheduleCheck(d, id, delay) ==
  LET h == NewHandle(d, id)
  IN  [d EXCEPT !.pending = @ \cup {[h |-> h, id |-> id, delay |-> delay]},
                !.timers = MapSet(@, id, h)]

\* onData as it would be without the hiding of a shown notification
onData_NoHide(d, id, data, cfg) ==
  IF ~cfg.enabled THEN d
  ELSE LET old == IF MapHas(d.buffers, id) THEN d.buffers[id] ELSE <<>>
           d1 == [d EXCEPT !.buffers =
                    MapSet(@, id, PromptBuffer_append(old, DefaultMaxSize, data))]
       IN  scheduleCheck(clearTimer(d1, id), id, cfg.showDelay)

\* onData as it would be without the clearTimer call
onData_NoClearTimer(d, id, data, cfg) ==
  IF ~cfg.enabled THEN d
  ELSE LET old == IF MapHas(d.buffers, id) THEN d.buffers[id] ELSE <<>>
           d1 == [d EXCEPT !.buffers =
                    MapSet(@, id, PromptBuffer_append(old, DefaultMaxSize, data))]
           d3 == IF IsWaiting(d1.waitingState, id)
                 THEN setWaitingState(d1, id, FALSE)
                 ELSE d1
       IN  scheduleCheck(d3, id, cfg.showDelay)

\* onData as it would be without the early return while detection is disabled
onData_Ungated(d, id, data, cfg) ==
  LET old == IF MapHas(d.buffers, id) THEN d.buffers[id] ELSE <<>>
      d1 == [d EXCEPT !.buffers =
               MapSet(@, id, PromptBuffer_append(old, DefaultMaxSize, data))]
      d2 == clearTimer(d1, id)
      d3 == IF IsWaiting(d2.waitingState, id)
            THEN setWaitingState(d2, id, FALSE)
            ELSE d2
  IN  scheduleCheck(d3, id, cfg.showDelay)

\* onData(terminalId, data)
onData(d, id, data, cfg) ==
  IF ~cfg.enabled THEN d
  ELSE LET old == IF MapHas(d.buffers, id) THEN d.buffers[id] ELSE <<>>
           d1 == [d EXCEPT !.buffers =
                    MapSet(@, id, PromptBuffer_append(old, DefaultMaxSize, data))]
           d2 == clearTimer(d1, id)
           d3 == IF IsWaiting(d2.waitingState, id)
                 THEN setWaitingState(d2, id, FALSE)
                 ELSE d2
       IN  scheduleCheck(d3, id, cfg.showDelay)

\* onUserInput as it would be without the clearTimer call
onUserInput_NoClearTimer(d, id) ==
  LET d2 == setWaitingState(d, id, FALSE)
  IN  IF MapHas(d2.buffers, id)
      THEN [d2 EXCEPT !.buffers[id] = PromptBuffer_clear(@)]
      ELSE d2

\* onUserInput as it would be without the clearing of the buffer
onUserInput_NoBufferClear(d, id) == setWaitingState(clearTimer(d, id), id, FALSE)

\* onUserInput(terminalId)
onUserInput(d, id) ==
  LET d1 == clearTimer(d, id)
      d2 == setWaitingState(d1, id, FALSE)
  IN  IF MapHas(d2.buffers, id)
      THEN [d2 EXCEPT !.buffers[id] = PromptBuffer_clear(@)]
      ELSE d2

\* removeTerminal as it would be with timers.delete in place of clearTimer
removeTerminal_NoClearTimer(d, id) ==
  [d EXCEPT !.timers = MapDelete(@, id),
            !.buffers = MapDelete(@, id),
            !.waitingState = MapDelete(@, id)]

\* removeTerminal as it would be without waitingState.delete
removeTerminal_KeepsState(d, id) ==
  LET d1 == clearTimer(d, id)
  IN  [d1 EXCEPT !.buffers = MapDelete(@, id)]

\* removeTerminal(terminalId)
removeTerminal(d, id) ==
  LET d1 == clearTimer(d, id)
  IN  [d1 EXCEPT !.buffers = MapDelete(@, id),
                 !.waitingState = MapDelete(@, id)]

\* dispose as it would be if it emptied the maps without clearTimeout
dispose_NoClearTimeout(d) ==
  [d EXCEPT !.timers = EmptyMap,
            !.buffers = EmptyMap,
            !.waitingState = EmptyMap]

\* dispose()
dispose(d) ==
  [d EXCEPT !.pending = {t \in @ : t.h \notin {d.timers[k] : k \in DOMAIN d.timers}},
            !.timers = EmptyMap,
            !.buffers = EmptyMap,
            !.waitingState = EmptyMap]

(***************************************************************************)
(* The calls the detector handles, one action each.                        *)
(***************************************************************************)
\* the last value sent to each id, after the notifications of one call
NotifiedAfter(n, emitted) ==
  [i \in Ids |->
     LET mine == SelectSeq(emitted, LAMBDA e : e[1] = i)
     IN  IF mine = <<>> THEN n[i] ELSE mine[Len(mine)][2]]

\* the chunks appended and neither cleared nor deleted, all terminals together
RECURSIVE SumLen(_, _)
SumLen(f, ids) ==
  IF ids = {} THEN 0
  ELSE LET i == CHOOSE x \in ids : TRUE
       IN  Len(f[i]) + SumLen(f, ids \ {i})

Held == SumLen(fed, Ids)

\* the handles of the timeouts a call cleared
Cleared(d) == {t.h : t \in pending \ d.pending}

\* the handles of the timeouts of a terminal still pending after a call
StillPending(d, id) == {t.h : t \in PendingFor(pending, id) \cap d.pending}

\* the fields take the values the call left in d
Becomes(d) ==
  /\ buffers' = d.buffers
  /\ timers' = d.timers
  /\ waitingState' = d.waitingState
  /\ pending' = d.pending
  /\ notified' = NotifiedAfter(notified, d.emitted)

NoCall ==
  [op |-> "none", id |-> "none", wasWaiting |-> FALSE, forcedTo |-> <<>>,
   emitted |-> <<>>, cleared |-> {}, firedPassed |-> FALSE, firedIgnored |-> FALSE,
   replaced |-> <<>>]

\* the call onData(id, Chunk(name)) and what is recorded of it
OnDataStep(id, name) ==
  /\ config.enabled => Held < MaxAppends
  /\ LET d == onData(Detector, id, Chunk(name), config)
         hides == config.enabled /\ IsWaiting(waitingState, id)
         live == {t.h : t \in d.pending}
     IN  /\ Becomes(d)
         /\ call' = [NoCall EXCEPT !.op = "onData", !.id = id,
                       !.wasWaiting = IsWaiting(waitingState, id),
                       !.forcedTo = IF hides THEN <<FALSE>> ELSE <<>>,
                       !.emitted = d.emitted, !.cleared = Cleared(d)]
         /\ forced' = IF hides THEN [forced EXCEPT ![id] = FALSE] ELSE forced
         /\ IF config.enabled
            THEN /\ fed' = [fed EXCEPT ![id] = Append(@, name)]
                 /\ passed' = (passed \cup StillPending(d, id)) \cap live
                 /\ ignored' = ignored \cap live
                 /\ removed' = removed \ {id}
            ELSE /\ ignored' = ignored \cup StillPending(d, id)
                 /\ UNCHANGED <<fed, passed, removed>>
  /\ UNCHANGED <<typed, patterns, config>>

\* the pty of terminal id delivers the chunk named name
OnData(id, name) ==
  /\ OnDataStep(id, name)
  /\ UNCHANGED aloneVars

\* the user types into terminal id
OnUserInput(id) ==
  /\ LET d == onUserInput(Detector, id)
         live == {t.h : t \in d.pending}
     IN  /\ Becomes(d)
         /\ call' = [NoCall EXCEPT !.op = "onUserInput", !.id = id,
                       !.wasWaiting = IsWaiting(waitingState, id),
                       !.forcedTo = <<FALSE>>,
                       !.emitted = d.emitted, !.cleared = Cleared(d)]
         /\ passed' = (passed \cup StillPending(d, id)) \cap live
         /\ ignored' = ignored \cap live
  /\ forced' = [forced EXCEPT ![id] = FALSE]
  /\ fed' = [fed EXCEPT ![id] = <<>>]
  /\ typed' = IF MapHas(buffers, id) THEN typed \cup {id} ELSE typed
  /\ UNCHANGED <<removed, patterns, config, aloneVars>>

\* the timeout t expires: the event loop drops it and runs its callback
TimerFires(t) ==
  /\ t \in pending
  /\ LET d == checkForPrompt([Detector EXCEPT !.pending = @ \ {t}], t.id, patterns)
         result == IF MapHas(buffers, t.id)
                   THEN <<SomePatternMatches(patterns, PromptTail(buffers[t.id]))>>
                   ELSE <<>>
     IN  /\ Becomes(d)
         /\ call' = [NoCall EXCEPT !.op = "timer", !.id = t.id,
                       !.wasWaiting = IsWaiting(waitingState, t.id),
                       !.forcedTo = result, !.emitted = d.emitted,
                       !.firedPassed = t.h \in passed,
                       !.firedIgnored = t.h \in ignored]
         /\ forced' = IF result = <<>> THEN forced ELSE [forced EXCEPT ![t.id] = result[1]]
  /\ passed' = passed \ {t.h}
  /\ ignored' = ignored \ {t.h}
  /\ UNCHANGED <<fed, typed, removed, patterns, config, aloneVars>>

\* updateConfig(c)
UpdateConfig(c) ==
  /\ config' = c
  /\ patterns' = updateConfig(patterns, c)
  /\ call' = [NoCall EXCEPT !.op = "updateConfig", !.replaced = patterns]
  /\ UNCHANGED <<buffers, timers, waitingState, pending>>
  /\ UNCHANGED <<notified, forced, fed, typed, passed, ignored, removed, aloneVars>>

\* removeTerminal(id)
RemoveTerminal(id) ==
  /\ LET d == removeTerminal(Detector, id)
         live == {t.h : t \in d.pending}
     IN  /\ Becomes(d)
         /\ call' = [NoCall EXCEPT !.op = "removeTerminal", !.id = id,
                       !.wasWaiting = IsWaiting(waitingState, id),
                       !.emitted = d.emitted, !.cleared = Cleared(d)]
         /\ passed' = passed \cap live
         /\ ignored' = ignored \cap live
  /\ forced' = [forced EXCEPT ![id] = FALSE]
  /\ fed' = [fed EXCEPT ![id] = <<>>]
  /\ typed' = typed \ {id}
  /\ removed' = removed \cup {id}
  /\ UNCHANGED <<patterns, config, aloneVars>>

\* dispose()
Dispose ==
  /\ LET d == dispose(Detector)
         live == {t.h : t \in d.pending}
     IN  /\ Becomes(d)
         /\ call' = [NoCall EXCEPT !.op = "dispose",
                       !.emitted = d.emitted, !.cleared = Cleared(d)]
         /\ passed' = passed \cap live
         /\ ignored' = ignored \cap live
  /\ forced' = [i \in Ids |-> FALSE]
  /\ fed' = [i \in Ids |-> <<>>]
  /\ typed' = {}
  /\ UNCHANGED <<removed, patterns, config, aloneVars>>

(***************************************************************************)
(* The stand-alone PromptBuffer: new PromptBuffer(maxSize), append, clear. *)
(***************************************************************************)
\* the capacities other than the default a buffer is built with
MaxCapacity == 3

Capacities == 1..MaxCapacity \cup {DefaultMaxSize}

\* no append once this many characters were appended since the last clear
MaxPbTotal == 4

\* the length of a long chunk of output
FillerLen == 260

Filler == [i \in 1..FillerLen |-> "x"]

\* the chunks appended: the strings of a and b up to two long, and two long ones
PbChunks ==
  {<<>>} \cup {<<x>> : x \in {"a", "b"}} \cup {<<x, y>> : x, y \in {"a", "b"}}
    \cup {Filler, Filler \o <<"a">> \o Filler}

PbAppend(data) ==
  /\ Len(pbAll) < MaxPbTotal
  /\ pbBuffer' = PromptBuffer_append(pbBuffer, pbMaxSize, data)
  /\ pbAll' = pbAll \o data
  /\ UNCHANGED <<pbMaxSize, detectorVars, recordVars, evalVars, surfaceVars, dispatchVars,
                 managerVars, completeVars>>

PbClear ==
  /\ pbBuffer' = PromptBuffer_clear(pbBuffer)
  /\ pbAll' = <<>>
  /\ UNCHANGED <<pbMaxSize, detectorVars, recordVars, evalVars, surfaceVars, dispatchVars,
                 managerVars, completeVars>>

(***************************************************************************)
(* The evaluation alone: lines 155-160 of checkForPrompt applied to a      *)
(* content and an array of RegExp objects, each with its lastIndex.        *)
(***************************************************************************)
\* some as it would be if it stopped after the first pattern
RECURSIVE SomeWalk_FirstOnly(_, _, _, _)
SomeWalk_FirstOnly(pats, i, tail, index) ==
  IF i > Len(pats) THEN [found |-> FALSE, index |-> index]
  ELSE LET t == TestAt(pats[i], tail, index[pats[i]])
       IN  [found |-> t.found, index |-> [index EXCEPT ![pats[i]] = t.lastIndex]]

\* patterns.some((pattern) => pattern.test(tail)) from the i-th pattern on: the
\* patterns are tested in order until one matches
RECURSIVE SomeWalk(_, _, _, _)
SomeWalk(pats, i, tail, index) ==
  IF i > Len(pats) THEN [found |-> FALSE, index |-> index]
  ELSE LET t == TestAt(pats[i], tail, index[pats[i]])
           tested == [index EXCEPT ![pats[i]] = t.lastIndex]
       IN  IF t.found THEN [found |-> TRUE, index |-> tested]
           ELSE SomeWalk(pats, i + 1, tail, tested)

\* what an evaluation computes and what it leaves: getContent returns the buffer's
\* string, stripAnsi and slice make new strings
Evaluation(content, pats, index) ==
  LET walk == SomeWalk(pats, 1, PromptTail(content), index)
  IN  [isWaiting |-> walk.found, index |-> walk.index, content |-> content]

\* no evaluation once this many were made
MaxEvals == 2

Xs(n) == [i \in 1..n |-> "x"]

Phrase == <<"e", "s", "c", " ", "t", "o", " ", "c", "a", "n", "c", "e", "l">>

Reset == <<ESC, "[", "0", "m">>

\* the contents evaluated: the phrase of the last built-in pattern just inside
\* and just outside the last TailLen stripped characters, with and without
\* escape sequences after it and text before it; a prompt; text alone
EvalContents ==
  { Phrase \o Xs(TailLen - Len(Phrase)),
    Phrase \o Xs(TailLen - Len(Phrase) + 1),
    Phrase \o Reset \o Reset \o Xs(TailLen - Len(Phrase)),
    <<"P", "r", "o", "c", "e", "e", "d", "?">> \o Phrase \o Xs(TailLen - Len(Phrase)),
    Phrase \o Xs(TailLen),
    Xs(Len(Phrase)) \o Xs(TailLen),
    <<"\n", ">", " ">> }

Reverse(seq) == [i \in 1..Len(seq) |-> seq[Len(seq) + 1 - i]]

Rotate(seq) == SubSeq(seq, 2, Len(seq)) \o SubSeq(seq, 1, 1)

\* the arrays evaluated against: the built-in patterns, alone and with custom
\* ones in both orders, and the built-in patterns reversed and rotated
EvalPatternLists ==
  { DEFAULT_PROMPT_PATTERNS,
    DEFAULT_PROMPT_PATTERNS \o <<SrcOk, SrcDollar>>,
    DEFAULT_PROMPT_PATTERNS \o <<SrcDollar, SrcOk>>,
    Reverse(DEFAULT_PROMPT_PATTERNS),
    Rotate(DEFAULT_PROMPT_PATTERNS) }

Evaluate(content) ==
  /\ Len(evRuns) < MaxEvals
  /\ LET r == Evaluation(content, evPatterns, evIndex)
     IN  /\ evRuns' = Append(evRuns, [content |-> content, isWaiting |-> r.isWaiting,
                                      kept |-> r.content])
         /\ evIndex' = r.index
  /\ UNCHANGED <<evPatterns, detectorVars, recordVars, bufferVars, surfaceVars, dispatchVars,
                 managerVars, completeVars>>

(***************************************************************************)
(* The dispatch of the messages of the webview (messageHandlers.ts). A     *)
(* message is a record of its type and its fields, a field being <<v>>,    *)
(* or <<>> where the message does not carry it; a call on the context is   *)
(* the name of the method and its arguments, each as the field is.         *)
(***************************************************************************)
\* no message is delivered, and none posted to be delivered, once this many were
MaxDeliveries == 2

NoFields ==
  [id |-> <<>>, data |-> <<>>, cols |-> <<>>, rows |-> <<>>, path |-> <<>>,
   line |-> <<>>, column |-> <<>>]

Msg(type) == [type |-> type] @@ NoFields

\* the messages of type WebviewMessage delivered
Messages ==
  {[Msg("ready") EXCEPT !.cols = c, !.rows = r] :
     c \in {<<>>, <<0>>, <<100>>}, r \in {<<>>, <<30>>}}
    \cup {[Msg("input") EXCEPT !.id = <<i>>, !.data = <<d>>] : i \in Ids, d \in {"y", "ls\r"}}
    \cup {[Msg("resize") EXCEPT !.id = <<i>>, !.cols = <<c>>, !.rows = <<24>>] :
            i \in Ids, c \in {80, 100}}
    \cup {Msg("newTab"), Msg("newTabWithCommand")}
    \cup {[Msg(t) EXCEPT !.id = <<i>>] : t \in {"closeTab", "switchTab"}, i \in Ids}
    \cup {[Msg("openFile") EXCEPT !.id = <<"t1">>, !.path = <<"a.ts">>, !.line = l,
                                  !.column = c] : l \in {<<>>, <<3>>}, c \in {<<>>, <<7>>}}

\* a || b, which takes b for a zero as well
Coalesce_Or(a, b) == IF a = <<>> \/ a = <<0>> THEN <<b>> ELSE a

\* a ?? b
Coalesce(a, b) == IF a = <<>> THEN <<b>> ELSE a

CtxCall(handler, args) == [handler |-> handler, args |-> args]

\* messageHandlers.resize as it would be if it reset the size before it set it
messageHandlers_resize_Resets(message) ==
  <<CtxCall("handleResize", <<message.id, <<0>>, <<0>>>>),
    CtxCall("handleResize", <<message.id, message.cols, message.rows>>)>>

\* messageHandlers.resize(message, ctx): the calls made on ctx
messageHandlers_resize(message) ==
  <<CtxCall("handleResize", <<message.id, message.cols, message.rows>>)>>

\* messageHandlers[type](message, ctx): the calls made on ctx
messageHandlers(type, message) ==
  CASE type = "ready" ->
         <<CtxCall("handleReady", <<Coalesce(message.cols, 80), Coalesce(message.rows, 24)>>)>>
    [] type = "input" -> <<CtxCall("handleInput", <<message.id, message.data>>)>>
    [] type = "resize" -> messageHandlers_resize(message)
    [] type = "newTab" -> <<CtxCall("handleNewTab", <<>>)>>
    [] type = "newTabWithCommand" -> <<CtxCall("handleNewTabWithCommand", <<>>)>>
    [] type = "closeTab" -> <<CtxCall("handleCloseTab", <<message.id>>)>>
    [] type = "switchTab" -> <<CtxCall("handleSwitchTab", <<message.id>>)>>
    [] type = "openFile" ->
         <<CtxCall("handleOpenFile",
                   <<message.id, message.path, message.line, message.column>>)>>

\* dispatchMessage as it would be if it called the handler twice
dispatchMessage_Twice(message) ==
  messageHandlers(message.type, message) \o messageHandlers(message.type, message)

\* dispatchMessage(message, ctx): the calls made on ctx
dispatchMessage(message) == messageHandlers(message.type, message)

\* the message is handed to dispatchMessage
DeliverStep(message) ==
  /\ Len(delivered) < MaxDeliveries
  /\ delivered' = Append(delivered, message)
  /\ ctxCalls' = Append(ctxCalls, dispatchMessage(message))

\* the webview's message is handed to dispatchMessage, the context left aside
Deliver(message) ==
  /\ DeliverStep(message)
  /\ UNCHANGED <<lastResize, procLog>>
  /\ UNCHANGED <<detectorVars, recordVars, bufferVars, evalVars, surfaceVars, managerVars, completeVars>>

(***************************************************************************)
(* The presentation side (media/main.ts): the map of TerminalState and the *)
(* handlers of the messages that create, write to, clear and remove a      *)
(* terminal. An xterm Terminal stands by the calls it received.            *)
(***************************************************************************)
\* no Terminal object is created once this many were
MaxTabs == 2

\* no chunk of output arrives, and no terminal is cleared, once this many
\* chunks arrived
MaxOutputs == 2

\* messageHandlers.output as it would be if it wrote ahead of what was written
output_WritesAhead(terminals, id, data) ==
  IF MapHas(terminals, id)
  THEN [terminals EXCEPT ![id].calls = <<[op |-> "write", data |-> data]>> \o @]
  ELSE terminals

\* messageHandlers.output
output(terminals, id, data) ==
  IF MapHas(terminals, id)
  THEN [terminals EXCEPT ![id].calls = Append(@, [op |-> "write", data |-> data])]
  ELSE terminals

\* messageHandlers.clear
clear(terminals, id) ==
  IF MapHas(terminals, id)
  THEN [terminals EXCEPT ![id].calls = Append(@, [op |-> "clear", data |-> <<>>])]
  ELSE terminals

\* createTerminalElement(id), the new Terminal being the n-th created for id
createTerminalElement(terminals, id, n) ==
  MapSet(terminals, id, [terminal |-> n, calls |-> <<>>])

\* WebviewContext.removeTerminal(id)
WebviewContext_removeTerminal(terminals, id) ==
  IF MapHas(terminals, id) THEN MapDelete(terminals, id) ELSE terminals

\* the columns and rows that fit the container, by its size
Grids == {<<80, 24>>, <<100, 30>>}

\* no message is received by the window once this many were
MaxReceived == 2

Null == "null"

\* the WebviewContext: its TerminalState, the document and what it has set going
Webview ==
  [terminals |-> wvTerminals, created |-> wvCreated, elements |-> wvElements,
   active |-> wvActive, disposed |-> wvDisposed, deferred |-> wvDeferred,
   posted |-> wvPosted, misused |-> wvMisused, tabBar |-> wvTabBar]

WebviewBecomes(w) ==
  /\ wvTerminals' = w.terminals
  /\ wvCreated' = w.created
  /\ wvElements' = w.elements
  /\ wvActive' = w.active
  /\ wvDisposed' = w.disposed
  /\ wvDeferred' = w.deferred
  /\ wvPosted' = w.posted
  /\ wvMisused' = w.misused
  /\ wvTabBar' = w.tabBar

\* the container and Terminal of the entry of id
ElementOf(terminals, id) == <<id, terminals[id].terminal>>

\* whether the container e is the one of an entry of the map
InState(terminals, e) == MapHas(terminals, e[1]) /\ terminals[e[1]].terminal = e[2]

\* the displayed containers
Displayed(elements) == {e \in DOMAIN elements : elements[e] = "block"}

\* messageHandlers.createTab: createTerminalElement(id), with the container it
\* appends to the document
createTab(w, id) ==
  LET n == w.created[id] + 1
  IN  [w EXCEPT !.created = [@ EXCEPT ![id] = n],
                !.elements = MapSet(@, <<id, n>>, "none"),
                !.terminals = createTerminalElement(@, id, n)]

\* messageHandlers.switchTab: switchToTerminal(id)
switchToTerminal(w, id) ==
  [w EXCEPT !.elements = [e \in DOMAIN @ |->
                            IF InState(w.terminals, e)
                            THEN IF e[1] = id THEN "block" ELSE "none"
                            ELSE @[e]],
            !.active = id,
            !.deferred = IF MapHas(w.terminals, id)
                         THEN @ \cup {ElementOf(w.terminals, id)} ELSE @]

\* messageHandlers.removeTab: removeTerminal(id), with the Terminal it disposes
\* and the container it removes
removeTab(w, id) ==
  IF MapHas(w.terminals, id)
  THEN [w EXCEPT !.disposed = @ \cup {ElementOf(w.terminals, id)},
                 !.elements = MapDelete(@, ElementOf(w.terminals, id)),
                 !.terminals = WebviewContext_removeTerminal(@, id)]
  ELSE w

\* messageHandlers.tabsUpdate: renderTabBar(tabs)
renderTabBar(w, tabs) == [w EXCEPT !.tabBar = tabs]

\* the resize message for id with the columns and rows of grid
ResizeMessage(id, grid) ==
  [Msg("resize") EXCEPT !.id = <<id>>, !.cols = <<grid[1]>>, !.rows = <<grid[2]>>]

\* the callback switchToTerminal defers by 10 ms, for the entry e
fitAndResize(w, e, grid) ==
  [w EXCEPT !.deferred = @ \ {e},
            !.misused = IF e \in w.disposed THEN @ \cup {e} ELSE @,
            !.posted = Append(@, ResizeMessage(e[1], grid))]

\* the callback of the ResizeObserver
resizeObserved(w, grid) ==
  IF w.active # Null /\ MapHas(w.terminals, w.active)
  THEN [w EXCEPT !.posted = Append(@, ResizeMessage(w.active, grid))]
  ELSE w

\* the messages of type ExtensionMessage the extension posts
ExtMsg(type, id) == [type |-> type, id |-> id, data |-> <<>>, tabs |-> <<>>, show |-> <<>>]

TabLists == { <<>>, <<[id |-> "t1", name |-> "claude", isActive |-> TRUE]>> }

ExtensionMessages ==
  {[ExtMsg("output", <<i>>) EXCEPT !.data = <<Chunk("text")>>] : i \in Ids}
    \cup {ExtMsg(t, <<i>>) : t \in {"clear", "createTab", "switchTab", "removeTab"}, i \in Ids}
    \cup {[ExtMsg("tabsUpdate", <<>>) EXCEPT !.tabs = <<l>>] : l \in TabLists}
    \cup {[ExtMsg("setNotification", <<i>>) EXCEPT !.show = <<b>>] : i \in Ids, b \in BOOLEAN}

\* the keys of messageHandlers
HandlerTypes == {"output", "clear", "tabsUpdate", "createTab", "switchTab", "removeTab"}

\* the listener of setupMessageHandler: the webview after it and the handler run
setupMessageHandler(w, message) ==
  LET type == message.type
  IN  IF type \notin HandlerTypes THEN [webview |-> w, handler |-> <<>>]
      ELSE [handler |-> <<type>>,
            webview |->
              CASE type = "output" ->
                     [w EXCEPT !.terminals = output(@, message.id[1], message.data[1])]
                [] type = "clear" -> [w EXCEPT !.terminals = clear(@, message.id[1])]
                [] type = "tabsUpdate" -> renderTabBar(w, message.tabs[1])
                [] type = "createTab" -> createTab(w, message.id[1])
                [] type = "switchTab" -> switchToTerminal(w, message.id[1])
                [] type = "removeTab" -> removeTab(w, message.id[1])]

Arrived == SumLen(arrived, Ids)

\* the Terminal objects created, all ids together
Created == wvCreated["t1"] + wvCreated["t2"]

\* chunks and Terminal objects together stay below their two bounds together
WithinBounds == Arrived + Created < MaxOutputs + MaxTabs - 1

\* what the actions of the webview leave alone
WebviewFrame ==
  UNCHANGED <<arrived, detectorVars, recordVars, bufferVars, evalVars, dispatchVars,
              managerVars, completeVars>>

\* a chunk of output of session id arrives: it is posted to the webview as an
\* output message, which the webview handles, and handed to the detector
Output(id, name) ==
  /\ Arrived < MaxOutputs
  /\ WithinBounds
  /\ OnDataStep(id, name)
  /\ wvTerminals' = output(wvTerminals, id, Chunk(name))
  /\ arrived' = [arrived EXCEPT ![id] =
                   Append(@, [name |-> name, enabled |-> config.enabled,
                              terminal |-> IF MapHas(wvTerminals, id)
                                           THEN wvTerminals[id].terminal ELSE 0])]
  /\ UNCHANGED <<restVars, wvGrid, wvReceived, bufferVars, evalVars, dispatchVars,
                 managerVars, completeVars>>

\* the webview handles a clear message
Clear(id) ==
  /\ Arrived < MaxOutputs
  /\ MapHas(wvTerminals, id) => Len(wvTerminals[id].calls) < MaxOutputs
  /\ wvTerminals' = clear(wvTerminals, id)
  /\ UNCHANGED <<restVars, wvGrid, wvReceived>>
  /\ WebviewFrame

\* the webview handles a createTab message
CreateTab(id) ==
  /\ Created < MaxTabs
  /\ WithinBounds
  /\ WebviewBecomes(createTab(Webview, id))
  /\ UNCHANGED <<wvGrid, wvReceived>>
  /\ WebviewFrame

\* the webview handles a switchTab message
SwitchTab(id) ==
  /\ WebviewBecomes(switchToTerminal(Webview, id))
  /\ UNCHANGED <<wvGrid, wvReceived>>
  /\ WebviewFrame

\* the webview handles a removeTab message
RemoveTab(id) ==
  /\ WebviewBecomes(removeTab(Webview, id))
  /\ UNCHANGED <<wvGrid, wvReceived>>
  /\ WebviewFrame

\* 10 ms after switchToTerminal its callback runs
DeferredFit(e) ==
  /\ e \in wvDeferred
  /\ Len(wvPosted) + Len(delivered) < MaxDeliveries
  /\ WebviewBecomes(fitAndResize(Webview, e, wvGrid))
  /\ UNCHANGED <<wvGrid, wvReceived>>
  /\ WebviewFrame

\* the container changes its size, to one that grid fits, and the
\* ResizeObserver calls back
ResizeObserved(grid) ==
  /\ Len(wvPosted) + Len(delivered) < MaxDeliveries
  /\ wvGrid' = grid
  /\ WebviewBecomes(resizeObserved(Webview, grid))
  /\ UNCHANGED wvReceived
  /\ WebviewFrame

\* the window receives a message of the extension
Receive(message) ==
  /\ Len(wvReceived) < MaxReceived
  /\ message.type = "createTab" => Created < MaxTabs /\ WithinBounds
  /\ LET r == setupMessageHandler(Webview, message)
     IN  /\ WebviewBecomes(r.webview)
         /\ wvReceived' = Append(wvReceived, [message |-> message, handler |-> r.handler])
  /\ UNCHANGED wvGrid
  /\ WebviewFrame

(***************************************************************************)
(* The context of the dispatch, ClaudeTerminalViewProvider: handleResize   *)
(* as the specification has it, a resize with the dimensions the session   *)
(* was last resized to being a no-op.                                      *)
(***************************************************************************)
\* handleResize(id, cols, rows): the dimensions kept and the resizes made
handleResize(last, id, cols, rows) ==
  IF MapHas(last, id) /\ last[id] = <<cols, rows>>
  THEN [last |-> last, resized |-> <<>>]
  ELSE [last |-> MapSet(last, id, <<cols, rows>>), resized |-> <<<<id, cols, rows>>>>]

\* the calls of handleResize among calls, made one after the other
RECURSIVE ContextHandles(_, _)
ContextHandles(last, calls) ==
  IF calls = <<>> THEN [last |-> last, resized |-> <<>>]
  ELSE LET c == Head(calls)
           r == IF c.handler = "handleResize"
                THEN handleResize(last, c.args[1][1], c.args[2][1], c.args[3][1])
                ELSE [last |-> last, resized |-> <<>>]
           rest == ContextHandles(r.last, Tail(calls))
       IN  [last |-> rest.last, resized |-> r.resized \o rest.resized]

\* the oldest message the webview posted is delivered: dispatchMessage and the
\* context's handler run
DeliverPosted ==
  /\ wvPosted # <<>>
  /\ DeliverStep(Head(wvPosted))
  /\ wvPosted' = Tail(wvPosted)
  /\ LET r == ContextHandles(lastResize, dispatchMessage(Head(wvPosted)))
     IN  /\ lastResize' = r.last
         /\ procLog' = Append(procLog, r.resized)
  /\ UNCHANGED <<wvTerminals, wvCreated, wvElements, wvActive, wvDisposed, wvDeferred,
                 wvMisused, wvTabBar, wvGrid, wvReceived, arrived>>
  /\ UNCHANGED <<detectorVars, recordVars, bufferVars, evalVars, managerVars, completeVars>>

(***************************************************************************)
(* The ConfigManager (configManager.ts) and the settings it reads.         *)
(***************************************************************************)
\* the 'claudeTerminal' section of the settings: a key the user has not set is
\* absent, <<>>
NoSettings ==
  [command |-> <<>>, args |-> <<>>, autoRun |-> <<>>, shell |-> <<>>, env |-> <<>>,
   directMode |-> <<>>]

SettingsValues ==
  { NoSettings,
    [NoSettings EXCEPT !.command = <<"codex">>],
    [NoSettings EXCEPT !.autoRun = <<FALSE>>, !.args = <<<<"--continue">>>>],
    [NoSettings EXCEPT !.command = <<"codex">>, !.directMode = <<FALSE>>] }

\* config.get(key, defaultValue)
ConfigGet(section, key, defaultValue) ==
  IF section[key] = <<>> THEN defaultValue ELSE section[key][1]

\* lines 31-39 of getConfig: the TerminalConfig read from the settings
ReadTerminalConfig(section) ==
  [command |-> ConfigGet(section, "command", "claude"),
   args |-> ConfigGet(section, "args", <<>>),
   autoRun |-> ConfigGet(section, "autoRun", TRUE),
   shell |-> ConfigGet(section, "shell", ""),
   env |-> ConfigGet(section, "env", EmptyMap),
   directMode |-> ConfigGet(section, "directMode", TRUE)]

\* getConfig as it would be if it did not keep what it read
getConfig_NeverCaches(cached, section) ==
  [cached |-> cached, returned |-> ReadTerminalConfig(section), read |-> TRUE]

\* getConfig(): the cache after it, what it returns, whether it read the settings
getConfig(cached, section) ==
  IF cached # <<>>
  THEN [cached |-> cached, returned |-> cached[1], read |-> FALSE]
  ELSE [cached |-> <<ReadTerminalConfig(section)>>,
        returned |-> ReadTerminalConfig(section), read |-> TRUE]

\* invalidateCache()
invalidateCache(cached) == <<>>

\* the listener as it would be if it left the cache as it is
OnDidChangeConfiguration_KeepsCache(cached, affectsClaudeTerminal) == cached

\* the listener the constructor subscribes to onDidChangeConfiguration
OnDidChangeConfiguration(cached, affectsClaudeTerminal) ==
  IF affectsClaudeTerminal THEN invalidateCache(cached) ELSE cached

CmOp(op, listened) == [op |-> op, before |-> cachedConfig, listened |-> listened]

\* a call of getConfig()
GetConfig ==
  /\ LET r == getConfig(cachedConfig, settings)
     IN  /\ cachedConfig' = r.cached
         /\ cmReads' = IF r.read THEN cmReads + 1 ELSE cmReads
         /\ cmReturned' = cmReturned \cup {r.returned}
  /\ cmLast' = CmOp("getConfig", FALSE)
  /\ UNCHANGED <<disposables, settings>>
  /\ UNCHANGED <<detectorVars, recordVars, bufferVars, evalVars, surfaceVars, dispatchVars,
                 completeVars>>

\* a call of invalidateCache()
InvalidateCache ==
  /\ cachedConfig' = invalidateCache(cachedConfig)
  /\ cmReads' = 0
  /\ cmReturned' = {}
  /\ cmLast' = CmOp("invalidateCache", FALSE)
  /\ UNCHANGED <<disposables, settings>>
  /\ UNCHANGED <<detectorVars, recordVars, bufferVars, evalVars, surfaceVars, dispatchVars,
                 completeVars>>

\* the user changes the settings: the section becomes section when the change
\* affects 'claudeTerminal', and stays as it is when it affects another section;
\* VS Code calls the listeners whose subscription is not disposed
ChangeConfiguration(affectsClaudeTerminal, section) ==
  /\ affectsClaudeTerminal = (section # settings)
  /\ settings' = section
  /\ LET listened == disposables # <<>>
         after == IF listened
                  THEN OnDidChangeConfiguration(cachedConfig, affectsClaudeTerminal)
                  ELSE cachedConfig
     IN  /\ cachedConfig' = after
         /\ cmReads' = IF listened /\ affectsClaudeTerminal THEN 0 ELSE cmReads
         /\ cmReturned' = IF listened /\ affectsClaudeTerminal THEN {} ELSE cmReturned
         /\ cmLast' = CmOp(IF affectsClaudeTerminal THEN "changeAffecting" ELSE "changeOther",
                           listened)
  /\ UNCHANGED disposables
  /\ UNCHANGED <<detectorVars, recordVars, bufferVars, evalVars, surfaceVars, dispatchVars,
                 completeVars>>

\* ConfigManager.dispose()
ConfigManager_dispose(subscriptions) == SubSeq(subscriptions, 1, 0)

CmDispose ==
  /\ disposables' = ConfigManager_dispose(disposables)
  /\ cmLast' = CmOp("dispose", FALSE)
  /\ UNCHANGED <<cachedConfig, settings, cmReads, cmReturned>>
  /\ UNCHANGED <<detectorVars, recordVars, bufferVars, evalVars, surfaceVars, dispatchVars,
                 completeVars>>

(***************************************************************************)
(* The PathAutocompleteProvider (unnamed/part_001): the debounced request  *)
(* for suggestions, the timeout that starts getSuggestions and the         *)
(* directory listing it awaits. A request is named by its number.          *)
(***************************************************************************)
\* no request is made once this many were
MaxRequests == 3

\* the directories asked for, each with the cache key it gives
AcDirs == {"src", "lib"}

\* a relative path while no workspace folder is open
NoRoot == "noRoot"

AcPaths == AcDirs \cup {NoRoot}

Provider ==
  [debounceTimer |-> debounceTimer, timeouts |-> acTimeouts, listing |-> acListing,
   cache |-> cache]

\* getDebouncedSuggestions(partialPath, ..., callback), the request numbered n
getDebouncedSuggestions(p, n) ==
  [p EXCEPT !.timeouts = (IF p.debounceTimer # 0 THEN @ \ {p.debounceTimer} ELSE @)
                           \cup {n},
            !.debounceTimer = n]

\* getSuggestions up to its first await, for the request n of path: the
\* provider after it and the requests whose promise is settled by then. fresh
\* tells whether a cached entry is younger than cacheMaxAge
getSuggestions(p, n, path, fresh) ==
  IF path = NoRoot \/ (path \in p.cache /\ fresh)
  THEN [provider |-> p, settled |-> <<n>>]
  ELSE [provider |-> [p EXCEPT !.listing = @ \cup {n}], settled |-> <<>>]

\* getSuggestions after listDirectory returned, for the request n of path
getSuggestions_Listed(p, n, path) ==
  [provider |-> [p EXCEPT !.listing = @ \ {n}, !.cache = @ \cup {path}],
   settled |-> <<n>>]

\* the callbacks .then(callback) invokes for the requests settled
Invoked(settled) ==
  [k \in 1..Len(settled) |-> [request |-> settled[k], made |-> Len(acRequests)]]

ProviderBecomes(r) ==
  /\ debounceTimer' = r.provider.debounceTimer
  /\ acTimeouts' = r.provider.timeouts
  /\ acListing' = r.provider.listing
  /\ cache' = r.provider.cache
  /\ acCallbacks' = acCallbacks \o Invoked(r.settled)

CompleteFrame ==
  UNCHANGED <<detectorVars, recordVars, bufferVars, evalVars, surfaceVars, dispatchVars,
              managerVars>>

\* the input changes: a request for the suggestions of path
GetDebouncedSuggestions(path) ==
  /\ Len(acRequests) < MaxRequests
  /\ acRequests' = Append(acRequests, path)
  /\ ProviderBecomes([provider |-> getDebouncedSuggestions(Provider, Len(acRequests) + 1),
                      settled |-> <<>>])
  /\ CompleteFrame

\* debounceMs after the request n its timeout expires
DebounceFires(n, fresh) ==
  /\ n \in acTimeouts
  /\ ProviderBecomes(getSuggestions([Provider EXCEPT !.timeouts = @ \ {n}], n,
                                    acRequests[n], fresh))
  /\ UNCHANGED acRequests
  /\ CompleteFrame

\* the directory listing of the request n returns
ListingReturns(n) ==
  /\ n \in acListing
  /\ ProviderBecomes(getSuggestions_Listed(Provider, n, acRequests[n]))
  /\ UNCHANGED acRequests
  /\ CompleteFrame

(***************************************************************************)
(* The specifications.                                                     *)
(***************************************************************************)
\* after new PromptDetector(config, onNotificationChange)
Constructed(c) ==
  /\ config = c
  /\ patterns = buildPatterns(c.customPatterns)
  /\ buffers = EmptyMap
  /\ timers = EmptyMap
  /\ waitingState = EmptyMap
  /\ pending = {}
  /\ call = NoCall
  /\ notified = [i \in Ids |-> FALSE]
  /\ forced = [i \in Ids |-> FALSE]
  /\ fed = [i \in Ids |-> <<>>]
  /\ typed = {}
  /\ passed = {}
  /\ ignored = {}
  /\ removed = {}

DetectorInit == \E c \in Configs : Constructed(c)

\* after new PromptBuffer(maxSize)
BufferInit ==
  /\ pbMaxSize \in Capacities
  /\ pbBuffer = <<>>
  /\ pbAll = <<>>

\* no stand-alone buffer in use
NoBuffer ==
  /\ pbMaxSize = DefaultMaxSize
  /\ pbBuffer = <<>>
  /\ pbAll = <<>>

\* no stand-alone evaluation in use
NoEvaluation ==
  /\ evPatterns = <<>>
  /\ evIndex = EmptyMap
  /\ evRuns = <<>>

\* the webview before any message: new WebviewContext()
NoSurface ==
  /\ wvTerminals = EmptyMap
  /\ wvCreated = [i \in Ids |-> 0]
  /\ arrived = [i \in Ids |-> <<>>]
  /\ wvElements = EmptyMap
  /\ wvActive = Null
  /\ wvDisposed = {}
  /\ wvDeferred = {}
  /\ wvPosted = <<>>
  /\ wvMisused = {}
  /\ wvTabBar = <<>>
  /\ wvGrid = <<80, 24>>
  /\ wvReceived = <<>>

\* no message dispatched
NoDispatch ==
  /\ delivered = <<>>
  /\ ctxCalls = <<>>
  /\ lastResize = EmptyMap
  /\ procLog = <<>>

\* no ConfigManager in use
NoManager ==
  /\ cachedConfig = <<>>
  /\ disposables = <<>>
  /\ settings = NoSettings
  /\ cmReads = 0
  /\ cmReturned = {}
  /\ cmLast = [op |-> "none", before |-> <<>>, listened |-> FALSE]

\* new PathAutocompleteProvider()
NoComplete ==
  /\ debounceTimer = 0
  /\ acTimeouts = {}
  /\ acListing = {}
  /\ cache = {}
  /\ acRequests = <<>>
  /\ acCallbacks = <<>>

\* none of them in use
NoBoundary == NoSurface /\ NoDispatch /\ NoManager /\ NoComplete

\* the detector alone
Init ==
  /\ DetectorInit
  /\ NoBuffer
  /\ NoEvaluation
  /\ NoBoundary

Next ==
  \/ \E id \in Ids, name \in ChunkNames : OnData(id, name)
  \/ \E id \in Ids : OnUserInput(id)
  \/ \E t \in pending : TimerFires(t)
  \/ \E c \in Configs : UpdateConfig(c)
  \/ \E id \in Ids : RemoveTerminal(id)
  \/ Dispose

Spec == Init /\ [][Next]_vars

\* one terminal alone
LiveId == "t1"

NextLive ==
  \/ \E name \in ChunkNames : OnData(LiveId, name)
  \/ OnUserInput(LiveId)
  \/ \E t \in pending : TimerFires(t)
  \/ \E c \in Configs : UpdateConfig(c)
  \/ RemoveTerminal(LiveId)
  \/ Dispose

\* a timeout leaves the pending ones: it expires or it is cleared
Leaves == \E t \in pending : pending' = pending \ {t}

\* no timeout stays pending for ever: the event loop runs the callback of every
\* timeout that is not cleared first
TimersExpire == WF_pending(Leaves)

SpecLive == Init /\ [][NextLive]_vars /\ TimersExpire

\* the pattern list alone: the constructor and updateConfig, for every list of
\* custom sources up to MaxCustom long
MaxCustom == 2

RECURSIVE ListsUpTo(_, _)
ListsUpTo(S, n) ==
  IF n = 0 THEN {<<>>}
  ELSE LET shorter == ListsUpTo(S, n - 1)
       IN  shorter \cup {Append(l, x) : l \in shorter, x \in S}

PatternConfigs ==
  [enabled : {TRUE}, showDelay : ShowDelays,
   customPatterns : ListsUpTo(CustomSources, MaxCustom)]

InitPatterns ==
  /\ \E c \in PatternConfigs : Constructed(c)
  /\ NoBuffer
  /\ NoEvaluation
  /\ NoBoundary

NextPatterns == \E c \in PatternConfigs : UpdateConfig(c)

SpecPatterns == InitPatterns /\ [][NextPatterns]_vars

\* the evaluation alone, the detector left as constructed
InitEval ==
  /\ evPatterns \in EvalPatternLists
  /\ evIndex = [p \in Range(evPatterns) |-> 0]
  /\ evRuns = <<>>
  /\ \E c \in Configs : c.enabled /\ c.customPatterns = <<>> /\ Constructed(c)
  /\ NoBuffer
  /\ NoBoundary

NextEval == \E content \in EvalContents : Evaluate(content)

SpecEval == InitEval /\ [][NextEval]_vars

\* the PromptBuffer alone, the detector left as constructed
InitBuffer ==
  /\ BufferInit
  /\ NoEvaluation
  /\ NoBoundary
  /\ DetectorInit
  /\ config = [enabled |-> TRUE, showDelay |-> 500, customPatterns |-> <<>>]

NextBuffer ==
  \/ \E data \in PbChunks : PbAppend(data)
  \/ PbClear

SpecBuffer == InitBuffer /\ [][NextBuffer]_vars

\* the output of the sessions, to the webview and to the detector
OutputConfigs == {c \in Configs : c.customPatterns = <<>>}

InitOutput ==
  /\ \E c \in OutputConfigs : Constructed(c)
  /\ NoBuffer
  /\ NoEvaluation
  /\ NoBoundary

NextOutput ==
  \/ \E id \in Ids, name \in ChunkNames : Output(id, name)
  \/ \E id \in Ids : Clear(id)
  \/ \E id \in Ids : CreateTab(id)
  \/ \E id \in Ids : RemoveTab(id)
  \/ \E c \in OutputConfigs : UpdateConfig(c)

SpecOutput == InitOutput /\ [][NextOutput]_vars

\* the dispatch alone, the detector left as constructed
InitDispatch ==
  /\ \E c \in Configs : c.enabled /\ c.customPatterns = <<>> /\ Constructed(c)
  /\ NoBuffer
  /\ NoEvaluation
  /\ NoSurface
  /\ NoDispatch
  /\ NoManager
  /\ NoComplete

NextDispatch == \E message \in Messages : Deliver(message)

SpecDispatch == InitDispatch /\ [][NextDispatch]_vars

\* the ConfigManager alone, the detector left as constructed: new ConfigManager()
InitManager ==
  /\ cachedConfig = <<>>
  /\ disposables = <<"onDidChangeConfiguration">>
  /\ settings \in SettingsValues
  /\ cmReads = 0
  /\ cmReturned = {}
  /\ cmLast = [op |-> "none", before |-> <<>>, listened |-> FALSE]
  /\ \E c \in Configs : c.enabled /\ c.customPatterns = <<>> /\ Constructed(c)
  /\ NoBuffer
  /\ NoEvaluation
  /\ NoSurface
  /\ NoDispatch
  /\ NoComplete

NextManager ==
  \/ GetConfig
  \/ InvalidateCache
  \/ \E affects \in BOOLEAN, section \in SettingsValues : ChangeConfiguration(affects, section)
  \/ CmDispose

SpecManager == InitManager /\ [][NextManager]_vars

\* the webview and the messages it posts, the detector left as constructed
InitSurface ==
  /\ \E c \in Configs : c.enabled /\ c.customPatterns = <<>> /\ Constructed(c)
  /\ NoBuffer
  /\ NoEvaluation
  /\ NoBoundary

NextSurface ==
  \/ \E id \in Ids : CreateTab(id)
  \/ \E id \in Ids : SwitchTab(id)
  \/ \E id \in Ids : RemoveTab(id)
  \/ \E e \in wvDeferred : DeferredFit(e)
  \/ \E grid \in Grids : ResizeObserved(grid)
  \/ DeliverPosted

SpecSurface == InitSurface /\ [][NextSurface]_vars

\* the messages the window receives
NextReceive == \E message \in ExtensionMessages : Receive(message)

SpecReceive == InitSurface /\ [][NextReceive]_vars

\* the requests for path suggestions, everything else left as constructed
NextComplete ==
  \/ \E path \in AcPaths : GetDebouncedSuggestions(path)
  \/ \E n \in acTimeouts, fresh \in BOOLEAN : DebounceFires(n, fresh)
  \/ \E n \in acListing : ListingReturns(n)

SpecComplete == InitSurface /\ [][NextComplete]_vars

(***************************************************************************)
(* What the claims are stated with.                                        *)
(***************************************************************************)
\* the values a call sent to id, in order
SentTo(c, id) ==
  LET mine == SelectSeq(c.emitted, LAMBDA e : e[1] = id)
  IN  [i \in 1..Len(mine) |-> mine[i][2]]

\* the last k characters of s
LastChars(s, k) == [i \in 1..k |-> s[Len(s) - k + i]]

Min(a, b) == IF a <= b THEN a ELSE b

\* the chunks named in names, one after the other
RECURSIVE Concat(_)
Concat(names) ==
  IF names = <<>> THEN <<>>
  ELSE Concat(SubSeq(names, 1, Len(names) - 1)) \o Chunk(names[Len(names)])

\* what a buffer of the default capacity holds of the characters all
Window(all) == LastChars(all, Min(Len(all), DefaultMaxSize))

(***************************************************************************)
(* C1. As claimed: whenever onData(id, chunk) was handled while id was     *)
(* Waiting, id is Idle when the call returns and the call sent exactly one *)
(* waitStateChanged(id, false), whatever the configuration.                *)
(***************************************************************************)
C1_HidesInEveryConfiguration ==
  (call.op = "onData" /\ call.wasWaiting) =>
     /\ ~IsWaiting(waitingState, call.id)
     /\ call.emitted = << <<call.id, FALSE>> >>

\* C1 as amended: the same, for an onData handled while config.enabled is true.
\* The transition is part of the onData call itself: no timer fires in the step.
C1_HidesWhenEnabled ==
  (call.op = "onData" /\ call.wasWaiting /\ config.enabled) =>
     /\ ~IsWaiting(waitingState, call.id)
     /\ call.emitted = << <<call.id, FALSE>> >>

\* an onData was handled for a Waiting terminal with detection enabled
C1_Witness == call.op = "onData" /\ call.wasWaiting /\ config.enabled

(***************************************************************************)
(* C2. As claimed: a terminal goes from Idle to Waiting only in the firing *)
(* of its timer, and a timer that fires was set by the most recent onData  *)
(* of its terminal, with no onData and no onUserInput of that terminal     *)
(* handled between its setting and its firing.                             *)
(***************************************************************************)
C2_OnlyTheLatestTimerShows ==
  [][ /\ \A id \in Ids :
           (~IsWaiting(waitingState, id) /\ IsWaiting(waitingState', id)) =>
              (call'.op = "timer" /\ call'.id = id)
      /\ call'.op = "timer" => (~call'.firedPassed /\ ~call'.firedIgnored)
    ]_vars

\* C2 as amended: the same, where the onData calls that count are those handled
\* while detection is enabled; an onData that returns early because
\* config.enabled is false leaves the pending timer of its terminal in place.
C2_OnlyAnUnpassedTimerShows ==
  [][ /\ \A id \in Ids :
           (~IsWaiting(waitingState, id) /\ IsWaiting(waitingState', id)) =>
              (call'.op = "timer" /\ call'.id = id)
      /\ call'.op = "timer" => ~call'.firedPassed
    ]_vars

\* a timer fired and took its terminal from Idle to Waiting
C2_Witness ==
  call.op = "timer" /\ ~call.wasWaiting /\ call.emitted = << <<call.id, TRUE>> >>

(***************************************************************************)
(* C3. Each terminal has at most one pending timeout; no timeout set       *)
(* before the latest appending onData of its terminal is still pending, so *)
(* a burst of onData calls leaves one evaluation to run, after the last of *)
(* them; and when an appending onData returns, the one timeout pending for *)
(* its terminal is the one it set.                                         *)
(***************************************************************************)
C3_OnePendingTimer ==
  /\ \A id \in Ids : Cardinality(PendingFor(pending, id)) <= 1
  /\ passed = {}
  /\ (call.op = "onData" /\ config.enabled) =>
        /\ MapHas(timers, call.id)
        /\ {t.h : t \in PendingFor(pending, call.id)} = {timers[call.id]}

\* an onData arrived before the timer of the previous one fired, and cleared it
C3_Witness == call.op = "onData" /\ call.cleared # {} /\ Len(fed[call.id]) >= 2

C5_NoClassificationAfterRemoval ==
  [][ \A id \in removed :
        /\ ~MapHas(buffers', id)
        /\ PendingFor(pending', id) = {}
        /\ SentTo(call', id) = <<>>
    ]_vars

(***************************************************************************)
(* C6. As claimed: every waitStateChanged(id, v) carries a value other     *)
(* than the one of the notification sent before it for the same id, the    *)
(* first one being true.                                                   *)
(***************************************************************************)
C6_NotificationsAlternate ==
  [][ \A id \in Ids :
        LET sent == SentTo(call', id)
        IN  /\ sent # <<>> => sent[1] # notified[id]
            /\ \A i \in 1..(Len(sent) - 1) : sent[i + 1] # sent[i]
    ]_vars

(***************************************************************************)
(* C7. An evaluation, or a forced state, that computes the state the       *)
(* terminal is in, or the state computed the last time for this terminal   *)
(* since its waiting state was created, sends no notification and leaves   *)
(* the waiting states as they are: of a run of evaluations computing the   *)
(* same state only the first can notify.                                   *)
(***************************************************************************)
C7_SameStateIsSilent ==
  [][ \A v \in BOOLEAN :
        ( /\ call'.forcedTo = <<v>>
          /\ (IsWaiting(waitingState, call'.id) = v \/ forced[call'.id] = v) )
        => /\ call'.emitted = <<>>
           /\ waitingState' = waitingState
           /\ notified' = notified
    ]_vars

\* a timer evaluated a terminal to the state it was in: Waiting is not reachable
\* at a firing, so this is an evaluation to Idle of an Idle terminal
C7_Witness ==
  /\ call.op = "timer"
  /\ call.forcedTo = <<call.wasWaiting>>
  /\ call.emitted = <<>>

(***************************************************************************)
(* C8. After every sequence of append and clear calls the sliding buffer   *)
(* is no longer than its capacity and holds exactly the last               *)
(* min(total appended, capacity) characters appended since the last clear, *)
(* in their order; so a chunk longer than the capacity leaves its last     *)
(* capacity characters. (SpecBuffer)                                       *)
(***************************************************************************)
C8_SlidingWindow ==
  /\ Len(pbBuffer) <= pbMaxSize
  /\ pbBuffer = LastChars(pbAll, Min(Len(pbAll), pbMaxSize))

\* a buffer of the default capacity has been appended more than it holds
C8_Witness == pbMaxSize = DefaultMaxSize /\ Len(pbAll) > DefaultMaxSize

(***************************************************************************)
(* C9. When onUserInput(id) returns no timeout is pending for id, id is    *)
(* Idle, its buffer, if it has one, is empty, and the call sent exactly    *)
(* one waitStateChanged(id, false) if id was Waiting and nothing if not.   *)
(***************************************************************************)
C9_UserInputResets ==
  call.op = "onUserInput" =>
     /\ PendingFor(pending, call.id) = {}
     /\ ~IsWaiting(waitingState, call.id)
     /\ MapHas(buffers, call.id) => Len(buffers[call.id]) = 0
     /\ call.emitted = IF call.wasWaiting THEN << <<call.id, FALSE>> >> ELSE <<>>

\* onUserInput was handled for a Waiting terminal that has a buffer
C9_Witness ==
  call.op = "onUserInput" /\ call.wasWaiting /\ MapHas(buffers, call.id)

(***************************************************************************)
(* C10. A timer that fires was not pending when user input was last        *)
(* handled for its terminal; every buffer holds exactly the chunks         *)
(* appended since its terminal's last user input; and an evaluation        *)
(* computes the match of the patterns against the tail of those chunks     *)
(* alone: output received before the input plays no part in it.            *)
(***************************************************************************)
C10_OnlyOutputAfterInput ==
  /\ \A id \in DOMAIN buffers : buffers[id] = Window(Concat(fed[id]))
  /\ call.op = "timer" =>
        /\ ~call.firedPassed
        /\ call.forcedTo # <<>> =>
              call.forcedTo =
                <<SomePatternMatches(patterns, PromptTail(Window(Concat(fed[call.id]))))>>

\* after user input cleared its buffer and new output arrived, a timer took the
\* terminal from Idle to Waiting
C10_Witness ==
  /\ call.op = "timer"
  /\ call.id \in typed
  /\ call.emitted = << <<call.id, TRUE>> >>

(***************************************************************************)
(* C11. When the n-th chunk appended to a terminal's buffer leaves a       *)
(* stripped tail that an active pattern matches, then, unless more is      *)
(* appended, the buffer is cleared or deleted (user input, removal,        *)
(* dispose) or the pattern set is replaced by one the tail does not match, *)
(* the timer set by that onData eventually fires, the terminal is Waiting  *)
(* and that firing sent exactly one waitStateChanged(id, true).            *)
(* (SpecLive)                                                              *)
(***************************************************************************)
TailMatches(id) ==
  MapHas(buffers, id) /\ SomePatternMatches(patterns, PromptTail(buffers[id]))

QuietAfter(id, n) ==
  /\ call.op = "onData" /\ call.id = id /\ config.enabled
  /\ Len(fed[id]) = n
  /\ TailMatches(id)

Shown(id) ==
  /\ call.op = "timer" /\ call.id = id
  /\ call.emitted = << <<id, TRUE>> >>
  /\ IsWaiting(waitingState, id)

C11_QuietPromptIsShown ==
  \A n \in 1..MaxAppends :
    QuietAfter(LiveId, n)
      ~> (Shown(LiveId) \/ Len(fed[LiveId]) # n \/ ~TailMatches(LiveId))

\* the timer of a quiet terminal fired and showed the prompt its buffer ends in
C11_Witness ==
  /\ Shown(LiveId) /\ TailMatches(LiveId) /\ PendingFor(pending, LiveId) = {}
  /\ ~call.firedIgnored

(***************************************************************************)
(* C12. When removeTerminal(id) returns the detector holds no buffer, no   *)
(* timer entry, no pending timeout and no waiting state for id, whatever   *)
(* it held before; and as long as id stays removed (no onData has appended *)
(* for it since) no state holds any of them for id.                        *)
(***************************************************************************)
HoldsNothingFor(id) ==
  /\ ~MapHas(buffers, id)
  /\ ~MapHas(timers, id)
  /\ ~MapHas(waitingState, id)
  /\ PendingFor(pending, id) = {}

C12_RemovalIsComplete ==
  /\ call.op = "removeTerminal" => HoldsNothingFor(call.id)
  /\ \A id \in removed : HoldsNothingFor(id)

\* a Waiting terminal, which had a buffer, a timer entry and a waiting state, was
\* removed
C12_Witness ==
  call.op = "removeTerminal" /\ call.wasWaiting /\ HoldsNothingFor(call.id)

(***************************************************************************)
(* C13. Handling onData, onUserInput, a timer firing or removeTerminal for *)
(* one terminal leaves the buffer, the timer entry, the pending timeouts   *)
(* and the waiting state of every other terminal as they were, and sends   *)
(* no notification for any other terminal.                                 *)
(***************************************************************************)
\* what the map m holds for id: the value, or nothing
Entry(m, id) == IF MapHas(m, id) THEN <<m[id]>> ELSE <<>>

PerTerminalOps == {"onData", "onUserInput", "timer", "removeTerminal"}

C13_OtherTerminalsUntouched ==
  [][ call'.op \in PerTerminalOps =>
        \A b \in Ids \ {call'.id} :
          /\ Entry(buffers', b) = Entry(buffers, b)
          /\ Entry(timers', b) = Entry(timers, b)
          /\ PendingFor(pending', b) = PendingFor(pending, b)
          /\ Entry(waitingState', b) = Entry(waitingState, b)
          /\ SentTo(call', b) = <<>>
          /\ notified'[b] = notified[b]
    ]_vars

\* a call was handled for one terminal while another one was Waiting, with a
\* buffer, or had a timeout pending
C13_Witness ==
  /\ call.op \in PerTerminalOps
  /\ \E b \in Ids \ {call.id} :
        /\ MapHas(buffers, b)
        /\ IsWaiting(waitingState, b) \/ PendingFor(pending, b) # {}
  /\ call.cleared # {}

(***************************************************************************)
(* C14. In every state the active patterns are exactly the built-in        *)
(* defaults followed by the custom patterns of the current configuration   *)
(* that compile, in their order: after updateConfig(c) those of c, none    *)
(* of the configuration before; and a timer that fires evaluates against   *)
(* that whole list, never an empty or a partly rebuilt one.                *)
(***************************************************************************)
ActiveFor(c) == DEFAULT_PROMPT_PATTERNS \o SelectSeq(c.customPatterns, RegExpCompiles)

C14_PatternsReplacedWhole ==
  /\ patterns = ActiveFor(config)
  /\ (call.op = "timer" /\ call.forcedTo # <<>>) =>
        call.forcedTo = <<SomePatternMatches(ActiveFor(config), PromptTail(buffers[call.id]))>>

\* updateConfig replaced a pattern list that held a custom pattern by the defaults
C14_Witness ==
  /\ call.op = "updateConfig"
  /\ Len(call.replaced) > Len(DEFAULT_PROMPT_PATTERNS)
  /\ patterns = DEFAULT_PROMPT_PATTERNS

(***************************************************************************)
(* C15. However the pattern list was built, by the constructor or by       *)
(* updateConfig, from whatever list of custom sources: the built-in        *)
(* defaults are all there, in their order; a custom source is in the list  *)
(* exactly when it compiles; nothing else is in the list; and the list has *)
(* a value for every input, a source that throws in new RegExp being       *)
(* skipped. (SpecPatterns)                                                 *)
(***************************************************************************)
C15_InvalidSourcesAreSkipped ==
  /\ SubSeq(patterns, 1, Len(DEFAULT_PROMPT_PATTERNS)) = DEFAULT_PROMPT_PATTERNS
  /\ \A src \in Range(config.customPatterns) :
        RegExpCompiles(src) <=> src \in Range(patterns)
  /\ Range(patterns) \subseteq Range(DEFAULT_PROMPT_PATTERNS) \cup Range(config.customPatterns)
  /\ Len(patterns) = Len(DEFAULT_PROMPT_PATTERNS)
                       + Len(SelectSeq(config.customPatterns, RegExpCompiles))

\* updateConfig was given a list with a source that compiles after one that does
\* not, and kept only the first
C15_Witness ==
  /\ call.op = "updateConfig"
  /\ config.customPatterns = <<SrcBadClass, SrcDollar>>
  /\ patterns = Append(DEFAULT_PROMPT_PATTERNS, SrcDollar)

(***************************************************************************)
(* C16. An evaluation is a function of the content and the pattern list:   *)
(* two evaluations of the same content against the same list answer the    *)
(* same, both what patterns.some answers for the tail; and an evaluation   *)
(* leaves the content and every pattern, its lastIndex included, as they   *)
(* were. (SpecEval)                                                        *)
(***************************************************************************)
C16_EvaluationIsPure ==
  /\ \A i, j \in 1..Len(evRuns) :
        evRuns[i].content = evRuns[j].content => evRuns[i].isWaiting = evRuns[j].isWaiting
  /\ \A i \in 1..Len(evRuns) :
        /\ evRuns[i].kept = evRuns[i].content
        /\ evRuns[i].isWaiting = SomePatternMatches(evPatterns, PromptTail(evRuns[i].content))
  /\ \A p \in DOMAIN evIndex : evIndex[p] = 0

\* the same content was evaluated twice and a pattern matched
C16_Witness ==
  /\ Len(evRuns) = 2
  /\ evRuns[1].content = evRuns[2].content
  /\ evRuns[2].isWaiting

(***************************************************************************)
(* C17. What an evaluation answers depends on the content only through the *)
(* last TailLen characters of the content with its escape sequences        *)
(* removed (all of them when there are fewer): two contents that agree     *)
(* there get the same answer, which is what the patterns answer for those  *)
(* characters; and the buffer keeps the raw content. (SpecEval)            *)
(***************************************************************************)
StrippedEnd(content) ==
  LET stripped == stripAnsi(content)
  IN  LastChars(stripped, Min(Len(stripped), TailLen))

C17_OnlyTheStrippedTailCounts ==
  /\ \A i, j \in 1..Len(evRuns) :
        StrippedEnd(evRuns[i].content) = StrippedEnd(evRuns[j].content)
          => evRuns[i].isWaiting = evRuns[j].isWaiting
  /\ \A i \in 1..Len(evRuns) :
        /\ evRuns[i].isWaiting
             = \E k \in 1..Len(evPatterns) :
                 RegExpTest(evPatterns[k], StrippedEnd(evRuns[i].content))
        /\ evRuns[i].kept = evRuns[i].content

\* two contents, one with escape sequences and more than TailLen characters,
\* that end in the same stripped characters were evaluated, and matched
C17_Witness ==
  /\ Len(evRuns) = 2
  /\ evRuns[1].content # evRuns[2].content
  /\ Len(evRuns[1].content) > TailLen
  /\ stripAnsi(evRuns[1].content) # evRuns[1].content
  /\ StrippedEnd(evRuns[1].content) = StrippedEnd(evRuns[2].content)
  /\ evRuns[1].isWaiting

(***************************************************************************)
(* C18. What an evaluation answers is the disjunction of what the patterns *)
(* answer one by one for the tail, so it is the same against every array   *)
(* that holds the same patterns in another order. (SpecEval)               *)
(***************************************************************************)
C18_OrderDoesNotMatter ==
  \A i \in 1..Len(evRuns) :
    LET tail == PromptTail(evRuns[i].content)
    IN  /\ evRuns[i].isWaiting = (\E pat \in Range(evPatterns) : RegExpTest(pat, tail))
        /\ \A p \in EvalPatternLists :
              Range(p) = Range(evPatterns)
                => SomeWalk(p, 1, tail, [x \in Range(p) |-> 0]).found = evRuns[i].isWaiting

\* an evaluation matched by a pattern that is not the first of its array, the
\* array being one of several orders of the same patterns
C18_Witness ==
  /\ Len(evRuns) >= 1
  /\ evRuns[1].isWaiting
  /\ ~RegExpTest(evPatterns[1], PromptTail(evRuns[1].content))
  /\ \E p \in EvalPatternLists : p # evPatterns /\ Range(p) = Range(evPatterns)

(***************************************************************************)
(* C19. Every chunk of output of a session reaches the session's terminal  *)
(* in the webview and the session's buffer in the detector, as it arrived  *)
(* and in the order of arrival. This holds of the chunks that arrive while *)
(* detection is enabled; a chunk that arrives while it is disabled never   *)
(* reaches the buffer. (SpecOutput)                                        *)
(***************************************************************************)
NamesOf(records) == [i \in 1..Len(records) |-> records[i].name]

\* the chunks of id that arrived while detection was enabled
Taken(id) == SelectSeq(arrived[id], LAMBDA a : a.enabled)

\* the chunks of id that arrived since its terminal in the webview was created
SinceCreated(id) == SelectSeq(arrived[id], LAMBDA a : a.terminal = wvTerminals[id].terminal)

\* what was written to the terminal of id, in the order of the calls
Written(id) ==
  LET writes == SelectSeq(wvTerminals[id].calls, LAMBDA c : c.op = "write")
  IN  [i \in 1..Len(writes) |-> writes[i].data]

BufferOf(id) == IF MapHas(buffers, id) THEN buffers[id] ELSE <<>>

ReachedTerminal(id) ==
  MapHas(wvTerminals, id)
    => Written(id) = [i \in 1..Len(SinceCreated(id)) |-> Chunk(SinceCreated(id)[i].name)]

\* the claim as stated: every chunk that arrived is in the buffer
C19_EveryChunkReachesBoth ==
  \A id \in Ids :
    /\ BufferOf(id) = Window(Concat(NamesOf(arrived[id])))
    /\ ReachedTerminal(id)

\* the chunks that arrived while detection was enabled are in the buffer
C19_ChunksTakenReachBoth ==
  \A id \in Ids :
    /\ BufferOf(id) = Window(Concat(NamesOf(Taken(id))))
    /\ ReachedTerminal(id)

\* two different chunks of a session arrived while detection was enabled and
\* its terminal was there, and the terminal was cleared in between
C19_Witness ==
  \E id \in Ids :
    /\ Len(Taken(id)) = 2
    /\ Taken(id)[1].name # Taken(id)[2].name
    /\ MapHas(wvTerminals, id)
    /\ Len(Written(id)) = 2
    /\ Len(wvTerminals[id].calls) = 3
    /\ wvTerminals[id].calls[2].op = "clear"

(***************************************************************************)
(* C20. dispatchMessage makes exactly one call on the context for each     *)
(* message, the call of the method that goes with the message's type, with *)
(* the fields the message carries as arguments, and what it does for a     *)
(* message does not depend on the messages before: the same message        *)
(* delivered again makes the same call again. (SpecDispatch)               *)
(***************************************************************************)
MethodFor(type) ==
  CASE type = "ready" -> "handleReady"
    [] type = "input" -> "handleInput"
    [] type = "resize" -> "handleResize"
    [] type = "newTab" -> "handleNewTab"
    [] type = "newTabWithCommand" -> "handleNewTabWithCommand"
    [] type = "closeTab" -> "handleCloseTab"
    [] type = "switchTab" -> "handleSwitchTab"
    [] type = "openFile" -> "handleOpenFile"

FieldsFor(type) ==
  CASE type = "ready" -> <<"cols", "rows">>
    [] type = "input" -> <<"id", "data">>
    [] type = "resize" -> <<"id", "cols", "rows">>
    [] type \in {"newTab", "newTabWithCommand"} -> <<>>
    [] type \in {"closeTab", "switchTab"} -> <<"id">>
    [] type = "openFile" -> <<"id", "path", "line", "column">>

C20_OneCallPerMessage ==
  /\ Len(ctxCalls) = Len(delivered)
  /\ \A i \in 1..Len(delivered) :
       LET message == delivered[i]
           fields == FieldsFor(message.type)
       IN  /\ Len(ctxCalls[i]) = 1
           /\ ctxCalls[i][1].handler = MethodFor(message.type)
           /\ Len(ctxCalls[i][1].args) = Len(fields)
           /\ \A k \in 1..Len(fields) :
                message[fields[k]] # <<>> => ctxCalls[i][1].args[k] = message[fields[k]]
  /\ \A i, j \in 1..Len(delivered) :
       delivered[i] = delivered[j] => ctxCalls[i] = ctxCalls[j]

\* the same input message was delivered twice, and handleInput called twice
C20_Witness ==
  /\ Len(delivered) = 2
  /\ delivered[1] = delivered[2]
  /\ delivered[1].type = "input"
  /\ Len(ctxCalls) = 2
  /\ ctxCalls[2] = <<CtxCall("handleInput", <<delivered[1].id, delivered[1].data>>)>>

(***************************************************************************)
(* C27. In every state of the detector a terminal that is waiting has no   *)
(* pending timeout. (Spec)                                                 *)
(***************************************************************************)
C27_WaitingHasNoPendingTimer ==
  \A id \in Ids : IsWaiting(waitingState, id) => PendingFor(pending, id) = {}

\* a terminal is waiting while another one has a pending timeout
C27_Witness ==
  \E id, other \in Ids :
    /\ IsWaiting(waitingState, id)
    /\ PendingFor(pending, other) # {}
    /\ MapHas(timers, id)

(***************************************************************************)
(* C28. A timeout that fires finds its terminal not waiting, so what it    *)
(* sends, if anything, is a notification of TRUE; a notification of FALSE  *)
(* is sent by onData or onUserInput only, and one of TRUE by a timeout     *)
(* that fires only. (Spec)                                                 *)
(***************************************************************************)
C28_TimersShowOthersHide ==
  /\ call.op = "timer" => ~call.wasWaiting
  /\ \A k \in 1..Len(call.emitted) :
       IF call.emitted[k][2]
       THEN call.op = "timer"
       ELSE call.op \in {"onData", "onUserInput"}

\* a timeout fired and sent nothing, its terminal's buffer not ending in a prompt
C28_Witness ==
  /\ call.op = "timer"
  /\ call.forcedTo = <<FALSE>>
  /\ call.emitted = <<>>
  /\ \E id \in Ids : notified[id]

(***************************************************************************)
(* C29. While detection is disabled a call of onData leaves the buffers,   *)
(* the timers, the pending timeouts and the waiting states as they were    *)
(* and sends no notification. (Spec)                                       *)
(***************************************************************************)
C29_DisabledOnDataChangesNothing ==
  [][\A id \in Ids, name \in ChunkNames :
       (~config.enabled /\ OnData(id, name))
         => /\ UNCHANGED <<buffers, timers, waitingState, pending, notified>>
            /\ call'.emitted = <<>>]_vars

\* onData was called while detection was disabled, for a terminal that was
\* waiting or for one that had a buffer and a pending timeout
C29_Witness ==
  /\ call.op = "onData"
  /\ ~config.enabled
  /\ \/ call.wasWaiting /\ IsWaiting(waitingState, call.id)
     \/ PendingFor(pending, call.id) # {} /\ MapHas(buffers, call.id)

(***************************************************************************)
(* C30. While detection is disabled no notification of TRUE is sent,       *)
(* whatever timeouts were pending when updateConfig disabled it. (Spec)    *)
(***************************************************************************)
C30_NoShowWhileDisabled ==
  (~config.enabled /\ call.op = "timer")
    => \A k \in 1..Len(call.emitted) : ~call.emitted[k][2]

(***************************************************************************)
(* C25. Between two invalidations of the cache getConfig reads the         *)
(* settings once at most and returns the same configuration every time,    *)
(* the one the settings held when it read them; a change of the settings   *)
(* that affects 'claudeTerminal' empties the cache, and one that does not  *)
(* leaves it as it was. The emptying holds of a manager that has not been  *)
(* disposed; after dispose() a change no longer reaches it. (SpecManager)  *)
(***************************************************************************)
CacheIsKept ==
  /\ cmReads <= 1
  /\ Cardinality(cmReturned) <= 1
  /\ cachedConfig # <<>> => cmReturned \subseteq {cachedConfig[1]}
  /\ (cmLast.op = "getConfig" /\ cmLast.before = <<>>)
       => cachedConfig = <<ReadTerminalConfig(settings)>>
  /\ cmLast.op = "changeOther" => cachedConfig = cmLast.before

\* the claim as stated: every change that affects 'claudeTerminal' empties the cache
C25_EveryChangeInvalidates ==
  /\ CacheIsKept
  /\ cmLast.op = "changeAffecting" => cachedConfig = <<>>

\* a change that affects 'claudeTerminal' and reaches the listener empties the cache
C25_ChangeInvalidatesUntilDisposed ==
  /\ CacheIsKept
  /\ (cmLast.op = "changeAffecting" /\ cmLast.listened) => cachedConfig = <<>>

\* a filled cache was emptied by a change of the settings
C25_Witness ==
  /\ cmLast.op = "changeAffecting"
  /\ cmLast.listened
  /\ cmLast.before # <<>>
  /\ cachedConfig = <<>>

\* C21: a resize message delivered again with the dimensions of the resize
\* delivered before it for that session is a no-op: the process is not resized
\* again, and the dimensions kept for a session are those of the resize last
\* delivered for it, as they were after the first delivery.
C21_IsResizeOf(k, id) == delivered[k].type = "resize" /\ delivered[k].id = <<id>>

C21_Repeats(j, k, id) ==
  /\ j < k
  /\ C21_IsResizeOf(j, id)
  /\ C21_IsResizeOf(k, id)
  /\ \A m \in (j + 1)..(k - 1) : ~C21_IsResizeOf(m, id)
  /\ delivered[j].cols = delivered[k].cols
  /\ delivered[j].rows = delivered[k].rows

C22_DuplicateCreateChangesNothing ==
  [][\A id \in Ids : (MapHas(wvTerminals, id) /\ CreateTab(id))
       => UNCHANGED <<wvTerminals, wvElements, wvCreated>>]_vars

\* C23: switchTab for an id that has no entry leaves activeTerminalId and the
\* display of every container as they are.
C23_UnknownSwitchChangesNothing ==
  [][\A id \in Ids : (~MapHas(wvTerminals, id) /\ SwitchTab(id))
       => UNCHANGED <<wvActive, wvElements>>]_vars

\* C24: at most one terminal container is displayed, and a displayed container
\* is the one of the entry of activeTerminalId.
C24_AtMostOneDisplayed ==
  /\ Cardinality(Displayed(wvElements)) <= 1
  /\ \A e \in Displayed(wvElements) : e[1] = wvActive /\ InState(wvTerminals, e)

\* C26: for every message of type ExtensionMessage the window receives, the
\* setNotification that tells a change of the waiting state included, a
\* handler runs.
C26_EveryMessageHandled ==
  \A k \in 1..Len(wvReceived) : wvReceived[k].handler # <<>>

\* C31: dispose() leaves no timeout pending, no buffer, no waiting state and
\* no timer handle, and notifies nothing; and as long as nothing is pending
\* and no session waits, every call but onData notifies nothing and leaves it
\* so: nothing is notified after dispose() until an onData arrives.
C31_Quiet == pending = {} /\ waitingState = EmptyMap

C31_DisposeSilences ==
  [][/\ Dispose => /\ C31_Quiet'
                   /\ buffers' = EmptyMap
                   /\ timers' = EmptyMap
                   /\ call'.emitted = <<>>
     /\ (C31_Quiet /\ ~\E id \in Ids, name \in ChunkNames : OnData(id, name))
          => /\ C31_Quiet'
             /\ call'.emitted = <<>>
             /\ notified' = notified]_vars

\* dispose() was called while a timeout was pending for each of two sessions,
\* one of which had been told it waits, and cleared both
C31_Witness ==
  /\ call.op = "dispose"
  /\ Cardinality(call.cleared) = 2
  /\ pending = {}
  /\ \E id \in Ids : notified[id]

\* C32: a ready message without dimensions is dispatched as one call
\* handleReady(80, 24), and a ready message with cols and rows as one call
\* handleReady(cols, rows) with the values it carries.
C32_ReadyDefaults ==
  \A k \in 1..Len(delivered) :
    LET m == delivered[k]
    IN  /\ (m.type = "ready" /\ m.cols = <<>> /\ m.rows = <<>>)
             => ctxCalls[k] = <<CtxCall("handleReady", <<<<80>>, <<24>>>>)>>
        /\ (m.type = "ready" /\ m.cols # <<>> /\ m.rows # <<>>)
             => ctxCalls[k] = <<CtxCall("handleReady", <<m.cols, m.rows>>)>>

\* a ready message without dimensions was delivered, then one with 0 columns
\* and 30 rows
C32_Witness ==
  /\ Len(delivered) = 2
  /\ delivered[1].type = "ready" /\ delivered[1].cols = <<>> /\ delivered[1].rows = <<>>
  /\ ctxCalls[1][1].args = <<<<80>>, <<24>>>>
  /\ delivered[2].type = "ready" /\ delivered[2].cols = <<0>> /\ delivered[2].rows = <<30>>
  /\ ctxCalls[2][1].args = <<<<0>>, <<30>>>>

\* C33: the callback switchToTerminal deferred, when it runs after
\* removeTerminal disposed the Terminal it closes over, posts no resize message
\* and works on no disposed Terminal.
C33_NoUseAfterRemove ==
  [][\A e \in wvDeferred : (e \in wvDisposed /\ DeferredFit(e))
       => (wvPosted' = wvPosted /\ wvMisused' = wvMisused)]_vars

\* C34: activeTerminalId is null or the id of an entry of the map.
C34_ActiveIsLive == wvActive = Null \/ MapHas(wvTerminals, wvActive)

\* C35: what getConfig returns, which is what the cache holds after it, is
\* the TerminalConfig of the settings as the most recent change affecting
\* 'claudeTerminal' left them. As claimed, after any calls, dispose() among
\* them; as it holds, as long as dispose() has not been called.
C35_ReturnsCurrent ==
  /\ cachedConfig = <<ReadTerminalConfig(settings)>>
  /\ ReadTerminalConfig(settings) \in cmReturned

C35_GetConfigAlwaysCurrent == cmLast.op = "getConfig" => C35_ReturnsCurrent

C35_GetConfigCurrentUntilDisposed ==
  (cmLast.op = "getConfig" /\ disposables # <<>>)
    => (C35_ReturnsCurrent /\ cmReturned = {ReadTerminalConfig(settings)})

\* getConfig answered from the cache, before any dispose(), with settings that
\* are not the defaults
C35_Witness ==
  /\ cmLast.op = "getConfig"
  /\ cmLast.before # <<>>
  /\ disposables # <<>>
  /\ settings # NoSettings
  /\ cachedConfig[1].command = "codex"

\* C36: a callback of getDebouncedSuggestions is invoked for the latest
\* request only: when it is invoked, no request was made after the one it
\* answers.
C36_OnlyLatestAnswered ==
  \A k \in 1..Len(acCallbacks) : acCallbacks[k].request = acCallbacks[k].made
====
